---- MODULE Spec2Model ----
(***************************************************************************)
(* A model of the bridge table server (src/cardserver.py) and of its pure  *)
(* helpers (src/logic/rotation.py, src/logic/scoring.py).                  *)
(*                                                                         *)
(* The server object's fields are the variables.  Every handler of the     *)
(* code is an operator from a state record (and the handler's inputs) to   *)
(* the state record it leaves; an action applies one handler.  The         *)
(* dispatcher thread (update_loop / on_update) is cut at its time.sleep    *)
(* calls: update_pc is the place where that thread currently sleeps; the   *)
(* client handler threads run between those places.                        *)
(*                                                                         *)
(* Python's None is modelled by "none" for names and by NoLevel for the    *)
(* contract and bid level.                                                 *)
(***************************************************************************)
EXTENDS Integers, Sequences, FiniteSets, TLC

-----------------------------------------------------------------------------
(* Bounds of the model                                                     *)

\* number of card values per suit kept from CARD_VALUES (13 in the code)
NumValues == 2
\* number of orders random.shuffle may produce in the model
NumShuffles == 2
\* longest bidding history the model follows
MaxBids == 5
\* highest level of a normal bid a client sends
MaxInputLevel == 1
\* most deals the dispatcher deals
MaxGames == 1
\* most connections open at once
MaxClients == 2

-----------------------------------------------------------------------------
(* Program constants                                                       *)

FULL_TABLE == 2
NoLevel == 0
PLAYER_POSITIONS == <<"north", "east", "south", "west">>
SUITS == <<"clubs", "diamonds", "hearts", "spades", "notrump">>
CARD_SUITS == <<"diamonds", "clubs", "hearts", "spades">>
ALL_CARD_VALUES == <<"2", "3", "4", "5", "6", "7", "8", "9", "10", "J", "Q", "K", "A">>
CARD_VALUES == SubSeq(ALL_CARD_VALUES, 1, NumValues)

\* the deck of the model: NumValues cards per suit, HandSize per seat
HandSize == Len(CARD_VALUES)
DeckSize == Len(CARD_SUITS) * Len(CARD_VALUES)
Cards == 1 .. DeckSize

\* list.index(x), 0-based
IndexOf(seq, x) == (CHOOSE i \in 1 .. Len(seq) : seq[i] = x) - 1
Range(seq) == {seq[i] : i \in 1 .. Len(seq)}
Positions == Range(PLAYER_POSITIONS)

\* ServerCard: the k-th card created by start_server (suit-major order)
CardSuit(c) == CARD_SUITS[((c - 1) \div Len(CARD_VALUES)) + 1]
CardValue(c) == CARD_VALUES[((c - 1) % Len(CARD_VALUES)) + 1]
CardOrdinal(c) == IndexOf(ALL_CARD_VALUES, CardValue(c))

\* Client.allocate_team / Bid.allocate_team
allocate_team(position) ==
    CASE position = "north" -> "northsouth"
      [] position = "south" -> "northsouth"
      [] position = "east" -> "eastwest"
      [] position = "west" -> "eastwest"

-----------------------------------------------------------------------------
(* src/logic/rotation.py                                                   *)

\* a rotation in which the dealer does not skip a seat after a block
chicago_rotate_without_skip(round_number) ==
    LET index == round_number - 1
        position == index % 4
        dealer == PLAYER_POSITIONS[position + 1]
        vulnerability ==
            IF position = 0 THEN "none"
            ELSE IF position = 3 THEN "both"
            ELSE IF dealer \in {"north", "south"} THEN "northsouth" ELSE "eastwest"
    IN  <<dealer, vulnerability>>

\* a rotation that knows two blocks only
chicago_rotate_of_two_blocks(round_number) ==
    LET index == round_number - 1
        block_start == (index \div 4) % 2
        position == index % 4
        dealer_index == (block_start + position) % 4
        dealer == PLAYER_POSITIONS[dealer_index + 1]
        vulnerability ==
            IF position = 0 THEN "none"
            ELSE IF position = 3 THEN "both"
            ELSE IF dealer \in {"north", "south"} THEN "northsouth" ELSE "eastwest"
    IN  <<dealer, vulnerability>>

chicago_rotate(round_number) ==
    LET index == round_number - 1
        block_start == (index \div 4) % 4
        position == index % 4
        dealer_index == (block_start + position) % 4
        dealer == PLAYER_POSITIONS[dealer_index + 1]
        vulnerability ==
            IF position = 0 THEN "none"
            ELSE IF position = 3 THEN "both"
            ELSE IF dealer \in {"north", "south"} THEN "northsouth" ELSE "eastwest"
    IN  <<dealer, vulnerability>>

-----------------------------------------------------------------------------
(* src/logic/scoring.py                                                    *)

\* every strain at the trick value of a major suit
suit_points_of_a_major(contract_suit) == 30

suit_points(contract_suit) ==
    IF contract_suit \in {"clubs", "diamonds"} THEN 20 ELSE 30

doubling_multiplier(doubled) ==
    CASE doubled = "" -> 1
      [] doubled = "X" -> 2
      [] doubled = "XX" -> 4

\* the penalty with every undertrick after the first at the price of the first
undertrick_penalty_flat(doubled, declarer_vulnerable, down) ==
    IF doubled = "" THEN -down * (IF declarer_vulnerable THEN 100 ELSE 50)
    ELSE -(down * (IF declarer_vulnerable THEN 200 ELSE 100)
              * (IF doubled = "XX" THEN 2 ELSE 1))

\* chicago_score, the branch "Contract down": result['penalty']
undertrick_penalty(doubled, declarer_vulnerable, down) ==
    LET penalty ==
            IF declarer_vulnerable THEN 200 + (down - 1) * 300
            ELSE IF down = 1 THEN 100
            ELSE 100 + (down - 1) * 200
    IN  IF doubled = "" THEN -down * (IF declarer_vulnerable THEN 100 ELSE 50)
        ELSE -(penalty * (IF doubled = "XX" THEN 2 ELSE 1))

\* the totals with the penalty left out of the total
summed_up_without_penalty(result) ==
    LET bonuses == result.part_score_bonus + result.game_bonus
                       + result.slam_bonus + result.insult_bonus
    IN  [result EXCEPT
            !.bonuses = bonuses,
            !.total = result.contract_points + result.overtricks + bonuses]

\* chicago_score, "Calculate total bonus points" and "Calculate total score"
summed_up(result) ==
    LET bonuses == result.part_score_bonus + result.game_bonus
                       + result.slam_bonus + result.insult_bonus
    IN  [result EXCEPT
            !.bonuses = bonuses,
            !.total = result.contract_points + result.overtricks + bonuses
                          + result.penalty]

chicago_score(contract_level, contract_suit, doubled, declarer_vulnerable, tricks_made) ==
    LET base_score == suit_points(contract_suit)
        multiplier == doubling_multiplier(doubled)
        required_tricks == 6 + contract_level
        overtricks == tricks_made - required_tricks
        made == overtricks >= 0
        first_trick_bonus == IF contract_suit = "notrump" THEN 10 ELSE 0
        contract_points ==
            IF made
            THEN contract_level * base_score * multiplier + first_trick_bonus * multiplier
            ELSE 0
        overtrick_points ==
            IF ~made THEN 0
            ELSE IF doubled = "" THEN overtricks * base_score
            ELSE IF doubled = "X"
                 THEN overtricks * (IF declarer_vulnerable THEN 200 ELSE 100)
                 ELSE overtricks * (IF declarer_vulnerable THEN 400 ELSE 200)
        part_score_bonus == IF made /\ contract_points < 100 THEN 50 ELSE 0
        game_bonus ==
            IF made /\ ~(contract_points < 100)
            THEN (IF declarer_vulnerable THEN 500 ELSE 300)
            ELSE 0
        slam_bonus ==
            IF ~made THEN 0
            ELSE IF contract_level = 6 THEN (IF declarer_vulnerable THEN 750 ELSE 500)
            ELSE IF contract_level = 7 THEN (IF declarer_vulnerable THEN 1500 ELSE 1000)
            ELSE 0
        insult_bonus ==
            IF ~made THEN 0
            ELSE IF doubled = "X" THEN 50
            ELSE IF doubled = "XX" THEN 100
            ELSE 0
        down == IF overtricks < 0 THEN -overtricks ELSE overtricks
        penalty ==
            IF made THEN 0
            ELSE undertrick_penalty(doubled, declarer_vulnerable, down)
    IN  summed_up([contract_points |-> contract_points,
                   overtricks |-> overtrick_points,
                   bonuses |-> 0,
                   insult_bonus |-> insult_bonus,
                   slam_bonus |-> slam_bonus,
                   game_bonus |-> game_bonus,
                   part_score_bonus |-> part_score_bonus,
                   penalty |-> penalty,
                   total |-> 0])


-----------------------------------------------------------------------------
(* The state of GameServer (src/cardserver.py)                             *)

VARIABLES
    game_phase,         \* "dealing", "bidding", "playing", "scoring", "resetting"
    client_list,        \* the seats of the connected clients, in order of joining
    bot_list,           \* the seats that have a bot entry
    current_turn,
    contract_suit,
    contract_level,
    contract_doubled,   \* "no" or "yes"
    contract_team,
    score,              \* positive: northsouth, negative: eastwest
    current_game,
    vulnerability,
    dummy_position,
    declarer_position,
    card_list,          \* the cards in list order (a played card moves to the end)
    card_facing,        \* per card: "up" or "down"
    card_location,      \* per card: "deck", "hand", "table", "tricks"
    card_owner,         \* per card: a seat or "none"
    card_trick,         \* per card: the team that won it or "none"
    bidding_history,    \* sequence of Bid records
    update_pc,          \* where the dispatcher thread is: "loop" between two
                        \* ticks, the name of the sleep it is in, or "dead"
    score_args,         \* the arguments of a direct call of chicago_score
                        \* (logic/scoring.py), <<>> when there is none
    score_result        \* <<the dict the call returned>>, <<>> before it returns

\* the fields of the server object
fields == <<game_phase, client_list, bot_list, current_turn, contract_suit,
            contract_level, contract_doubled, contract_team, score, current_game,
            vulnerability, dummy_position, declarer_position, card_list,
            card_facing, card_location, card_owner, card_trick, bidding_history,
            update_pc>>

vars == <<fields, score_args, score_result>>

\* the server object as one record
Self ==
    [game_phase |-> game_phase, client_list |-> client_list, bot_list |-> bot_list,
     current_turn |-> current_turn, contract_suit |-> contract_suit,
     contract_level |-> contract_level, contract_doubled |-> contract_doubled,
     contract_team |-> contract_team, score |-> score, current_game |-> current_game,
     vulnerability |-> vulnerability, dummy_position |-> dummy_position,
     declarer_position |-> declarer_position, card_list |-> card_list,
     card_facing |-> card_facing, card_location |-> card_location,
     card_owner |-> card_owner, card_trick |-> card_trick,
     bidding_history |-> bidding_history, update_pc |-> update_pc,
     \* the values game_phase is assigned while one handler runs, in order
     phase_log |-> <<>>,
     \* the game states self.broadcast() sends while one handler runs, in order
     sent |-> <<>>]

\* the next state is the record s (s is taken once)
Becomes(s) ==
    \E after \in {s} :
        /\ game_phase' = after.game_phase
        /\ client_list' = after.client_list
        /\ bot_list' = after.bot_list
        /\ current_turn' = after.current_turn
        /\ contract_suit' = after.contract_suit
        /\ contract_level' = after.contract_level
        /\ contract_doubled' = after.contract_doubled
        /\ contract_team' = after.contract_team
        /\ score' = after.score
        /\ current_game' = after.current_game
        /\ vulnerability' = after.vulnerability
        /\ dummy_position' = after.dummy_position
        /\ declarer_position' = after.declarer_position
        /\ card_list' = after.card_list
        /\ card_facing' = after.card_facing
        /\ card_location' = after.card_location
        /\ card_owner' = after.card_owner
        /\ card_trick' = after.card_trick
        /\ bidding_history' = after.bidding_history
        /\ update_pc' = after.update_pc
        /\ UNCHANGED <<score_args, score_result>>

\* the server object is the record s
FieldsAre(s) ==
    /\ game_phase = s.game_phase
    /\ client_list = s.client_list
    /\ bot_list = s.bot_list
    /\ current_turn = s.current_turn
    /\ contract_suit = s.contract_suit
    /\ contract_level = s.contract_level
    /\ contract_doubled = s.contract_doubled
    /\ contract_team = s.contract_team
    /\ score = s.score
    /\ current_game = s.current_game
    /\ vulnerability = s.vulnerability
    /\ dummy_position = s.dummy_position
    /\ declarer_position = s.declarer_position
    /\ card_list = s.card_list
    /\ card_facing = s.card_facing
    /\ card_location = s.card_location
    /\ card_owner = s.card_owner
    /\ card_trick = s.card_trick
    /\ bidding_history = s.bidding_history
    /\ update_pc = s.update_pc

\* the state is the record s, and chicago_score is called by the server only
StateIs(s) ==
    /\ FieldsAre(s)
    /\ score_args = <<>>
    /\ score_result = <<>>

\* GameServer.__init__ followed by the set-up part of start_server: the cards
\* and the four bots are created and the update thread is started
Constructed ==
    [game_phase |-> "dealing",
     client_list |-> <<>>,
     bot_list |-> PLAYER_POSITIONS,
     current_turn |-> "north",
     contract_suit |-> "none",
     contract_level |-> NoLevel,
     contract_doubled |-> "no",
     contract_team |-> "none",
     score |-> 0,
     current_game |-> 0,
     vulnerability |-> "none",
     dummy_position |-> "none",
     declarer_position |-> "none",
     card_list |-> [i \in 1 .. DeckSize |-> i],
     card_facing |-> [c \in Cards |-> "up"],
     card_location |-> [c \in Cards |-> "deck"],
     card_owner |-> [c \in Cards |-> "none"],
     card_trick |-> [c \in Cards |-> "none"],
     bidding_history |-> <<>>,
     update_pc |-> "loop",
     phase_log |-> <<>>,
     sent |-> <<>>]

Init == StateIs(Constructed)

-----------------------------------------------------------------------------
(* Helpers of the handlers                                                 *)

\* [card for card in self.card_list if card.location == "table"]
TableOf(s) == SelectSeq(s.card_list, LAMBDA c : s.card_location[c] = "table")

\* [card for card in self.card_list if card.location == "hand" and card.owner == position]
HandOf(s, position) ==
    SelectSeq(s.card_list,
              LAMBDA c : s.card_location[c] = "hand" /\ s.card_owner[c] = position)

\* [card for card in self.card_list if card.location == "tricks"]
TricksOf(s) == SelectSeq(s.card_list, LAMBDA c : s.card_location[c] = "tricks")

\* a move on top that forgets list.remove(card)
MoveOnTopKeeping(list, card) == Append(list, card)

\* self.card_list.remove(card); self.card_list.append(card)
MoveOnTop(list, card) == Append(SelectSeq(list, LAMBDA c : c # card), card)

\* any(client.position == position for client in self.client_list)
is_human_player(s, position) ==
    \E i \in 1 .. Len(s.client_list) : s.client_list[i] = position

\* GameServer.find_card: the card, or 0 for None
find_card(s, suit, value) ==
    IF \E c \in Range(s.card_list) : CardSuit(c) = suit /\ CardValue(c) = value
    THEN CHOOSE c \in Range(s.card_list) : CardSuit(c) = suit /\ CardValue(c) = value
    ELSE 0

\* GameServer.get_bid_ordinal (defined when bid_level is None or bid_suit is in SUITS)
get_bid_ordinal(bid_level, bid_suit) ==
    IF bid_level = NoLevel THEN -1
    ELSE IndexOf(SUITS, bid_suit) + (bid_level - 1) * 5

\* SUITS.index(bid_suit) raises ValueError
OrdinalRaises(bid_level, bid_suit) ==
    bid_level # NoLevel /\ bid_suit \notin Range(SUITS)

\* an advance of the turn that skips a seat
advance_turn_by_two(s) ==
    LET index_0 == IndexOf(PLAYER_POSITIONS, s.current_turn)
        index_1 == (index_0 + 2) % 4
    IN  [s EXCEPT !.current_turn = PLAYER_POSITIONS[index_1 + 1]]

\* GameServer.advance_turn
advance_turn(s) ==
    LET index_0 == IndexOf(PLAYER_POSITIONS, s.current_turn)
        index_1 == (index_0 + 1) % 4
    IN  [s EXCEPT !.current_turn = PLAYER_POSITIONS[index_1 + 1]]

\* a resolution loop that never lets a trump beat the card of another suit
RECURSIVE HighCardOfLeadOnly(_, _, _, _)
HighCardOfLeadOnly(table, i, high, trump) ==
    IF i > Len(table) THEN high
    ELSE LET card == table[i]
             next ==
                 IF CardSuit(card) = CardSuit(high) /\ CardOrdinal(card) >= CardOrdinal(high)
                 THEN card
                 ELSE high
         IN  HighCardOfLeadOnly(table, i + 1, next, trump)

\* the loop of allocate_trick over table[i..], highcard so far being high
RECURSIVE HighCardFrom(_, _, _, _)
HighCardFrom(table, i, high, trump) ==
    IF i > Len(table) THEN high
    ELSE LET card == table[i]
             next ==
                 IF CardSuit(card) = CardSuit(high) /\ CardOrdinal(card) >= CardOrdinal(high)
                 THEN card
                 ELSE IF CardSuit(card) = trump /\ CardSuit(high) # trump
                 THEN card
                 ELSE high
         IN  HighCardFrom(table, i + 1, next, trump)

\* GameServer.allocate_trick
allocate_trick(s) ==
    LET table == TableOf(s)
    IN  IF Len(table) # 4 THEN s
        ELSE LET highcard == HighCardFrom(table, 1, table[1], s.contract_suit)
             IN  [s EXCEPT !.current_turn = s.card_owner[highcard]]


-----------------------------------------------------------------------------
(* The handlers of the client actions (process_action)                     *)
(* An exception raised in a handler is caught by handle_client; the state  *)
(* is then what the handler had written before the exception.              *)

\* "card_suit not in table[0].suit": a substring test, which for the names of
\* CARD_SUITS is inequality
SuitNotIn(card_suit, lead_suit) == card_suit # lead_suit

\* a follow-suit test that drops no play
RevokesNever(table, follows_suit, card_suit) == FALSE

\* play_card, "Check if player follows suit": the play is dropped
Revokes(table, follows_suit, card_suit) ==
    Len(table) > 0 /\ follows_suit /\ SuitNotIn(card_suit, CardSuit(table[1]))

\* a play_card without the test "Check if card is in hand"
play_card_of_any_holder(s, action, player_position) ==
    IF s.game_phase # "playing" THEN s
    ELSE IF player_position # s.current_turn THEN s
    ELSE
        LET table == TableOf(s)
            hand == HandOf(s, player_position)
            follows_suit ==
                IF Len(table) = 0 THEN FALSE
                ELSE \E i \in 1 .. Len(hand) : CardSuit(hand[i]) = CardSuit(table[1])
            card == find_card(s, action.card_suit, action.card_value)
        IN  IF Len(table) = 4 THEN s
            ELSE IF Revokes(table, follows_suit, action.card_suit) THEN s
            ELSE IF card = 0 THEN s
            ELSE
                LET s1 == [s EXCEPT !.card_location[card] = "table",
                                    !.card_list = MoveOnTop(s.card_list, card)]
                IN  IF Len(TableOf(s1)) < 4 THEN advance_turn(s1)
                    ELSE allocate_trick(s1)

\* GameServer.play_card; action = [card_suit, card_value]
play_card(s, action, player_position) ==
    IF s.game_phase # "playing" THEN s
    ELSE IF player_position # s.current_turn THEN s
    ELSE
        LET table == TableOf(s)
            hand == HandOf(s, player_position)
            card_suit == action.card_suit
            card_value == action.card_value
            follows_suit ==
                IF Len(table) = 0 THEN FALSE
                ELSE \E i \in 1 .. Len(hand) : CardSuit(hand[i]) = CardSuit(table[1])
            card == find_card(s, card_suit, card_value)
        IN  IF Len(table) = 4 THEN s
            ELSE IF Revokes(table, follows_suit, card_suit) THEN s
            \* card is None: card.location raises AttributeError
            ELSE IF card = 0 THEN s
            ELSE IF s.card_location[card] # "hand" \/ s.card_owner[card] # player_position
            THEN s
            ELSE
                LET s1 == [s EXCEPT !.card_location[card] = "table",
                                    !.card_list = MoveOnTop(s.card_list, card)]
                IN  IF Len(TableOf(s1)) < 4 THEN advance_turn(s1)
                    ELSE allocate_trick(s1)

\* a turn test of take_trick that lets the declarer through whoever is on turn
NotTakersTurnButDeclarer(s, player_position) ==
    /\ s.current_turn # player_position
    /\ player_position # s.declarer_position

\* take_trick, "Check if it is player's turn (or player's dummy)"
NotTakersTurn(s, player_position) ==
    /\ s.current_turn # player_position
    /\ ~(s.current_turn = s.dummy_position /\ player_position = s.declarer_position)

\* a take_trick without the test "Check if 4 cards on table"
take_trick_of_any_table(s, player_position) ==
    IF NotTakersTurn(s, player_position) THEN s
    ELSE
        LET table == TableOf(s)
            team == IF s.current_turn \in {"north", "south"}
                    THEN "northsouth" ELSE "eastwest"
        IN  [s EXCEPT
                !.card_facing = [c \in Cards |->
                    IF c \in Range(table) THEN "down" ELSE s.card_facing[c]],
                !.card_location = [c \in Cards |->
                    IF c \in Range(table) THEN "tricks" ELSE s.card_location[c]],
                !.card_trick = [c \in Cards |->
                    IF c \in Range(table) THEN team ELSE s.card_trick[c]]]

\* GameServer.take_trick
take_trick(s, player_position) ==
    IF NotTakersTurn(s, player_position) THEN s
    ELSE
        LET table == TableOf(s)
            team == IF s.current_turn \in {"north", "south"}
                    THEN "northsouth" ELSE "eastwest"
        IN  IF Len(table) # 4 THEN s
            ELSE [s EXCEPT
                    !.card_facing = [c \in Cards |->
                        IF c \in Range(table) THEN "down" ELSE s.card_facing[c]],
                    !.card_location = [c \in Cards |->
                        IF c \in Range(table) THEN "tricks" ELSE s.card_location[c]],
                    !.card_trick = [c \in Cards |->
                        IF c \in Range(table) THEN team ELSE s.card_trick[c]]]

\* Bid.__init__
Bid(player, bid_type, level, suit) ==
    [player |-> player, type |-> bid_type, level |-> level, suit |-> suit,
     team |-> allocate_team(player)]

\* a validity test that lets a bid through that equals the contract
InsufficientBidStrict(s, action) ==
    /\ get_bid_ordinal(action.bid_level, action.bid_suit)
           < get_bid_ordinal(s.contract_level, s.contract_suit)
    /\ action.bid_type \notin {"pass", "double"}

\* lock_bid, "Check validity of bid": the bid is dropped
InsufficientBid(s, action) ==
    /\ get_bid_ordinal(action.bid_level, action.bid_suit)
           <= get_bid_ordinal(s.contract_level, s.contract_suit)
    /\ action.bid_type \notin {"pass", "double"}

\* a doubling test without the branch "No doubling of already doubled bid"
DoubleRefusedUndoubledOnly(s, action) ==
    /\ action.bid_type = "double"
    /\ \/ s.contract_level = NoLevel
       \/ /\ Len(s.bidding_history) >= 2
          /\ s.bidding_history[Len(s.bidding_history)].type = "pass"
          /\ s.bidding_history[Len(s.bidding_history) - 1].type = "normal"

\* lock_bid, "Check if doubling is allowed": the double is dropped
DoubleRefused(s, action) ==
    /\ action.bid_type = "double"
    /\ \/ s.contract_level = NoLevel
       \/ s.contract_doubled = "yes"
       \/ /\ Len(s.bidding_history) >= 2
          /\ s.bidding_history[Len(s.bidding_history)].type = "pass"
          /\ s.bidding_history[Len(s.bidding_history) - 1].type = "normal"

\* a recording of the bid that leaves out "Reset double"
RecordBidKeepsDouble(s, action) ==
    LET s1 == IF action.bid_type = "normal"
              THEN [s EXCEPT !.contract_level = action.bid_level,
                             !.contract_suit = action.bid_suit,
                             !.contract_team = allocate_team(s.current_turn)]
              ELSE s
        s2 == IF action.bid_type = "double"
              THEN [s1 EXCEPT !.contract_doubled = "yes"]
              ELSE s1
        bid == Bid(s.current_turn, action.bid_type, action.bid_level, action.bid_suit)
    IN  [s2 EXCEPT !.bidding_history = Append(s2.bidding_history, bid)]

\* lock_bid from "Set contract" to "Update bidding history"
RecordBid(s, action) ==
    LET s1 == IF action.bid_type = "normal"
              THEN [s EXCEPT !.contract_level = action.bid_level,
                             !.contract_suit = action.bid_suit,
                             !.contract_team = allocate_team(s.current_turn),
                             !.contract_doubled = "no"]
              ELSE s
        s2 == IF action.bid_type = "double"
              THEN [s1 EXCEPT !.contract_doubled = "yes"]
              ELSE s1
        bid == Bid(s.current_turn, action.bid_type, action.bid_level, action.bid_suit)
    IN  [s2 EXCEPT !.bidding_history = Append(s2.bidding_history, bid)]

\* GameServer.lock_bid; action = [bid_level, bid_suit, bid_type]
lock_bid(s, action, player_position) ==
    IF player_position # s.current_turn THEN s
    \* get_bid_ordinal raises ValueError
    ELSE IF OrdinalRaises(action.bid_level, action.bid_suit) THEN s
    ELSE IF InsufficientBid(s, action) THEN s
    ELSE IF DoubleRefused(s, action) THEN s
    \* next(client for client in self.client_list ...) raises StopIteration
    ELSE IF ~is_human_player(s, s.current_turn) THEN s
    ELSE advance_turn(RecordBid(s, action))

\* list.remove(x): the list without its first x
RemoveFirst(list, x) ==
    IF \E i \in 1 .. Len(list) : list[i] = x
    THEN LET k == CHOOSE i \in 1 .. Len(list) :
                      list[i] = x /\ \A j \in 1 .. (i - 1) : list[j] # x
         IN  SubSeq(list, 1, k - 1) \o SubSeq(list, k + 1, Len(list))
    ELSE list

\* the loop of remove_player from list index i (0-based) on: the loop runs
\* over the list that remove_client shortens
RECURSIVE RemoveLoop(_, _, _)
RemoveLoop(list, i, player_position) ==
    IF i >= Len(list) THEN list
    ELSE IF list[i + 1] = player_position
    THEN RemoveLoop(RemoveFirst(list, player_position), i + 1, player_position)
    ELSE RemoveLoop(list, i + 1, player_position)

\* GameServer.remove_player with remove_client
remove_player(s, player_position) ==
    [s EXCEPT !.client_list = RemoveLoop(s.client_list, 0, player_position)]

\* one round of the loop of handle_client in which c.recv raises (the
\* connection failed) or returns no data (the peer closed it): "except: pass",
\* and the loop goes on
handle_client_without_data(s, player_position) == s

\* the accept loop of start_server for a join message of seat player_position
accept_client(s, player_position) ==
    [s EXCEPT !.client_list = Append(s.client_list, player_position),
              !.bot_list = SelectSeq(s.bot_list, LAMBDA b : b # player_position)]


-----------------------------------------------------------------------------
(* The dispatcher thread: update_loop, on_update and the phase logics      *)
(* An exception raised in on_update is caught nowhere: it ends the thread  *)
(* (update_pc = "dead").                                                   *)

Dead(s) == [s EXCEPT !.update_pc = "dead"]

\* self.game_phase = phase
set_phase(s, phase) ==
    [s EXCEPT !.game_phase = phase, !.phase_log = Append(@, phase)]
Sleeps(s, where) == [s EXCEPT !.update_pc = where]

\* the dictionary game_state that broadcast builds
game_state(s) ==
    [game_phase |-> s.game_phase, current_turn |-> s.current_turn,
     contract_suit |-> s.contract_suit, contract_level |-> s.contract_level,
     contract_doubled |-> s.contract_doubled, contract_team |-> s.contract_team,
     score |-> s.score, current_game |-> s.current_game,
     vulnerability |-> s.vulnerability, dummy_position |-> s.dummy_position,
     declarer_position |-> s.declarer_position,
     cards |-> [i \in 1 .. Len(s.card_list) |->
                   [card |-> s.card_list[i],
                    facing |-> s.card_facing[s.card_list[i]],
                    location |-> s.card_location[s.card_list[i]],
                    owner |-> s.card_owner[s.card_list[i]],
                    trick |-> s.card_trick[s.card_list[i]]]],
     bidding_history |-> s.bidding_history,
     players |-> s.client_list \o s.bot_list]

\* GameServer.broadcast: the game state goes to every client (the server
\* state r it is called in is taken once)
broadcast(s) ==
    CHOOSE after \in {[r EXCEPT !.sent = Append(@, game_state(r))] : r \in {s}} : TRUE

\* the orders random.shuffle produces in the model: the value-major order of
\* the deck (2 of each suit, then 3 of each suit, ...) rotated by k places
ValueMajor ==
    [i \in 1 .. DeckSize |->
        ((i - 1) % Len(CARD_SUITS)) * Len(CARD_VALUES) + ((i - 1) \div Len(CARD_SUITS)) + 1]
Rotated(list, k) == [i \in 1 .. Len(list) |-> list[((i - 1 + k) % Len(list)) + 1]]
Shuffles == {Rotated(ValueMajor, k) : k \in 0 .. (NumShuffles - 1)}

\* a deal that gives each seat one card more than its share, while cards last
deal_cards_uneven(s, shuffled) ==
    set_phase(
        [s EXCEPT
            !.card_list = shuffled,
            !.card_facing = [c \in Cards |-> "up"],
            !.card_location = [c \in Cards |-> "hand"],
            !.card_owner = [c \in Cards |->
                PLAYER_POSITIONS[(IndexOf(shuffled, c) \div (HandSize + 1)) + 1]],
            !.current_game = s.current_game + 1],
        "bidding")

\* GameServer.deal_cards, random.shuffle leaving the list in the order shuffled
deal_cards(s, shuffled) ==
    broadcast(set_phase(
        [s EXCEPT
            !.card_list = shuffled,
            !.card_facing = [c \in Cards |-> "up"],
            !.card_location = [c \in Cards |-> "hand"],
            !.card_owner = [c \in Cards |->
                PLAYER_POSITIONS[(IndexOf(shuffled, c) \div HandSize) + 1]],
            !.current_game = s.current_game + 1],
        "bidding"))

\* a reset that goes on to the bidding without a deal
resetting_logic_without_deal(s) ==
    LET rotation == chicago_rotate(s.current_game + 1)
        cleared == [s EXCEPT
                       !.contract_level = NoLevel,
                       !.contract_suit = "none",
                       !.contract_doubled = "no",
                       !.contract_team = "none",
                       !.bidding_history = <<>>,
                       !.dummy_position = "none",
                       !.declarer_position = "none"]
    IN  [set_phase(cleared, "bidding") EXCEPT
            !.current_turn = rotation[1],
            !.vulnerability = rotation[2]]

\* GameServer.resetting_logic
resetting_logic(s) ==
    LET rotation == chicago_rotate(s.current_game + 1)
        cleared == [s EXCEPT
                       !.contract_level = NoLevel,
                       !.contract_suit = "none",
                       !.contract_doubled = "no",
                       !.contract_team = "none",
                       !.bidding_history = <<>>,
                       !.dummy_position = "none",
                       !.declarer_position = "none"]
    IN  [set_phase(broadcast(cleared), "dealing") EXCEPT
            !.current_turn = rotation[1],
            !.vulnerability = rotation[2]]

\* on_update from "if self.game_phase == 'resetting'" to its end
resetting_step(s) ==
    IF s.game_phase = "resetting" THEN resetting_logic(s) ELSE s

\* scoring_logic adding the total to the score whichever team holds the contract
scoring_logic_unsigned(s) ==
    IF s.contract_level = NoLevel \/ s.contract_suit \notin Range(SUITS)
    THEN Dead(s)
    ELSE
        LET tricks_made ==
                Cardinality({c \in Cards : s.card_trick[c] = s.contract_team}) \div 4
            declarer_vulnerable == s.vulnerability \in {"both", s.contract_team}
            doubled == IF s.contract_doubled = "yes" THEN "X" ELSE ""
            result == chicago_score(s.contract_level, s.contract_suit, doubled,
                                    declarer_vulnerable, tricks_made)
        IN  Sleeps([s EXCEPT !.score = s.score + result.total], "scoring_sleep")

\* GameServer.scoring_logic up to its time.sleep(1.0)
scoring_logic(s) ==
    IF s.contract_level = NoLevel \/ s.contract_suit \notin Range(SUITS)
    THEN Dead(s)    \* chicago_score raises on a None contract
    ELSE
        LET tricks_made ==
                Cardinality({c \in Cards : s.card_trick[c] = s.contract_team}) \div 4
            declarer_vulnerable == s.vulnerability \in {"both", s.contract_team}
            doubled == IF s.contract_doubled = "yes" THEN "X" ELSE ""
            result == chicago_score(s.contract_level, s.contract_suit, doubled,
                                    declarer_vulnerable, tricks_made)
            sign == IF s.contract_team = "northsouth" THEN 1 ELSE -1
        IN  Sleeps(broadcast([s EXCEPT !.score = s.score + result.total * sign]),
                   "scoring_sleep")

\* scoring_logic after its sleep, and the rest of on_update
after_scoring_sleep(s) ==
    resetting_step(set_phase([s EXCEPT !.update_pc = "loop"], "resetting"))

\* on_update from "if self.game_phase == 'scoring'" to its end or its next sleep
scoring_step(s) ==
    IF s.game_phase = "scoring" THEN scoring_logic(s) ELSE resetting_step(s)

\* playing_logic from "Count cards on trick pile" on, and the rest of on_update
playing_tail(s) ==
    LET s1 == IF Len(TricksOf(s)) = DeckSize
              THEN set_phase(s, "scoring")
              ELSE s
    IN  scoring_step(s1)

\* GameServer.opponent_play after its sleep
opponent_play(s) ==
    LET table == TableOf(s)
        hand == HandOf(s, s.current_turn)
        following == {i \in 1 .. Len(hand) :
                         Len(table) > 0 /\ CardSuit(hand[i]) = CardSuit(table[1])}
        selected_card ==
            IF following # {}
            THEN hand[CHOOSE i \in following : \A j \in following : i <= j]
            ELSE IF Len(hand) > 0 THEN hand[1]
            ELSE 0
    IN  IF selected_card = 0 THEN Dead(s)    \* None.location raises AttributeError
        ELSE
            LET s1 == [s EXCEPT !.card_location[selected_card] = "table",
                                !.card_list = MoveOnTop(s.card_list, selected_card)]
            IN  IF Len(TableOf(s1)) < 4 THEN advance_turn(s1)
                ELSE allocate_trick(s1)

\* the dispatcher wakes from the sleep of opponent_play
after_play_sleep(s) ==
    LET s1 == opponent_play(s)
    IN  IF s1.update_pc = "dead" THEN s1
        ELSE playing_tail(broadcast([s1 EXCEPT !.update_pc = "loop"]))

\* the dispatcher wakes from the sleep that follows its take_trick
after_trick_sleep(s) == playing_tail(broadcast([s EXCEPT !.update_pc = "loop"]))

\* GameServer.playing_logic up to its first sleep
playing_logic(s) ==
    IF Len(TableOf(s)) < 4
    THEN IF ~is_human_player(s, s.current_turn)
         THEN Sleeps(s, "opponent_play")
         ELSE playing_tail(s)
    ELSE LET s1 == allocate_trick(s)
         IN  IF ~is_human_player(s1, s1.current_turn)
             THEN Sleeps(take_trick(s1, s1.current_turn), "trick_sleep")
             ELSE playing_tail(s1)

\* on_update from "if self.game_phase == 'playing'" to its end or its next sleep
playing_step(s) ==
    IF s.game_phase = "playing" THEN playing_logic(s) ELSE scoring_step(s)

\* a bot that raises whatever the level of the contract
opponent_bid_without_limit(s, choice) ==
    IF \A i \in 1 .. Len(s.bot_list) : s.bot_list[i] # s.current_turn
    THEN Dead(s)
    ELSE
        LET bids == choice = "bid"
            index == (IndexOf(SUITS, s.contract_suit) + 1) % 5
            bid_level == IF ~bids THEN NoLevel
                         ELSE IF s.contract_level = NoLevel THEN 1
                         ELSE s.contract_level + (IF index = 0 THEN 1 ELSE 0)
            bid_suit == IF ~bids THEN "none"
                        ELSE IF s.contract_level = NoLevel THEN "clubs"
                        ELSE SUITS[index + 1]
            bid_type == IF bids THEN "normal" ELSE "pass"
            s1 == IF bids
                  THEN [s EXCEPT !.contract_level = bid_level,
                                 !.contract_suit = bid_suit,
                                 !.contract_team = allocate_team(s.current_turn),
                                 !.contract_doubled = "no"]
                  ELSE s
            bid == Bid(s.current_turn, bid_type, bid_level, bid_suit)
        IN  advance_turn([s1 EXCEPT !.bidding_history = Append(s1.bidding_history, bid)])

\* GameServer.opponent_bid after its sleep; choice is random.choice(["pass", "bid"])
opponent_bid(s, choice) ==
    IF \A i \in 1 .. Len(s.bot_list) : s.bot_list[i] # s.current_turn
    THEN Dead(s)    \* next(bot for bot in self.bot_list ...) raises StopIteration
    ELSE
        LET bids == choice = "bid" /\ (s.contract_level = NoLevel \/ s.contract_level < 4)
            index == (IndexOf(SUITS, s.contract_suit) + 1) % 5
            bid_level == IF ~bids THEN NoLevel
                         ELSE IF s.contract_level = NoLevel THEN 1
                         ELSE s.contract_level + (IF index = 0 THEN 1 ELSE 0)
            bid_suit == IF ~bids THEN "none"
                        ELSE IF s.contract_level = NoLevel THEN "clubs"
                        ELSE SUITS[index + 1]
            bid_type == IF bids THEN "normal" ELSE "pass"
            s1 == IF bids
                  THEN [s EXCEPT !.contract_level = bid_level,
                                 !.contract_suit = bid_suit,
                                 !.contract_team = allocate_team(s.current_turn),
                                 !.contract_doubled = "no"]
                  ELSE s
            bid == Bid(s.current_turn, bid_type, bid_level, bid_suit)
        IN  advance_turn([s1 EXCEPT !.bidding_history = Append(s1.bidding_history, bid)])

\* the test "bidding_ended" of bidding_logic
bidding_ended(s) ==
    LET h == s.bidding_history
    IN  /\ Len(h) >= 4
        /\ \A i \in (Len(h) - 2) .. Len(h) : h[i].type = "pass"
        /\ s.contract_level # NoLevel

\* a no-bid round that takes five bids
no_bid_round_of_five(s) ==
    LET h == s.bidding_history
    IN  /\ Len(h) >= 5
        /\ \A i \in (Len(h) - 3) .. Len(h) : h[i].type = "pass"

\* the test "no_bid_round" of bidding_logic
no_bid_round(s) ==
    LET h == s.bidding_history
    IN  /\ Len(h) >= 4
        /\ \A i \in (Len(h) - 3) .. Len(h) : h[i].type = "pass"

\* next(bid for bid in self.bidding_history if bid.suit == ... and bid.team == ...)
declarer_bid(s) ==
    LET h == s.bidding_history
        matches == {i \in 1 .. Len(h) :
                       h[i].suit = s.contract_suit /\ h[i].team = s.contract_team}
    IN  h[CHOOSE i \in matches : \A j \in matches : i <= j]

HasDeclarerBid(s) ==
    \E i \in 1 .. Len(s.bidding_history) :
        /\ s.bidding_history[i].suit = s.contract_suit
        /\ s.bidding_history[i].team = s.contract_team

\* the dispatcher wakes from the sleep of opponent_bid
after_bid_sleep(s, choice) ==
    LET s1 == opponent_bid(s, choice)
    IN  IF s1.update_pc = "dead" THEN s1
        ELSE playing_step(broadcast([s1 EXCEPT !.update_pc = "loop"]))

\* GameServer.bidding_logic up to its first sleep, and the rest of on_update
bidding_logic(s) ==
    IF bidding_ended(s)
    THEN IF ~HasDeclarerBid(s) THEN Dead(s)
         ELSE LET declarer == declarer_bid(s).player
              IN  IF /\ ~is_human_player(s, declarer)
                     /\ \A i \in 1 .. Len(s.bot_list) : s.bot_list[i] # declarer
                  THEN Dead(s)    \* next(player ...) raises StopIteration
                  ELSE playing_step(broadcast(
                         [set_phase(
                             [s EXCEPT
                                !.declarer_position = declarer,
                                !.dummy_position = PLAYER_POSITIONS[
                                    ((IndexOf(PLAYER_POSITIONS, declarer) + 2) % 4) + 1]],
                             "playing")
                          EXCEPT
                            !.current_turn = PLAYER_POSITIONS[
                                ((IndexOf(PLAYER_POSITIONS, declarer) + 1) % 4) + 1]]))
    ELSE IF no_bid_round(s)
    THEN playing_step(set_phase(s, "resetting"))
    ELSE IF ~is_human_player(s, s.current_turn)
    THEN Sleeps(s, "opponent_bid")
    ELSE playing_step(s)

\* on_update from "if self.game_phase == 'bidding'" to its end or its next sleep
bidding_step(s) ==
    IF s.game_phase = "bidding" THEN bidding_logic(s) ELSE playing_step(s)

\* on_update without the test of the number of clients
on_update_unguarded(s, shuffled) ==
    IF s.game_phase = "dealing" THEN bidding_step(deal_cards(s, shuffled))
    ELSE bidding_step(s)

\* GameServer.on_update up to its end or its first sleep
on_update(s, shuffled) ==
    IF Len(s.client_list) < FULL_TABLE THEN s
    ELSE IF s.game_phase = "dealing" THEN bidding_step(deal_cards(s, shuffled))
    ELSE bidding_step(s)


-----------------------------------------------------------------------------
(* The inputs the model sends                                              *)

\* the seats clients join at
JoinSeats == {"north", "east"}

\* play_card messages: every card of the deck, and one naming no card
PlayInputs ==
    {[card_suit |-> CardSuit(c), card_value |-> CardValue(c)] : c \in Cards}
        \cup {[card_suit |-> "clubs", card_value |-> "1"]}

\* lock_bid messages: the normal bids up to MaxInputLevel, pass and double as
\* the client sends them (no level, no suit), a normal bid without a level
\* and a pass with a level and no suit
BidInputs ==
    {[bid_type |-> "normal", bid_level |-> l, bid_suit |-> SUITS[k]] :
        l \in 1 .. MaxInputLevel, k \in 1 .. Len(SUITS)}
        \cup {[bid_type |-> "pass", bid_level |-> NoLevel, bid_suit |-> "none"],
              [bid_type |-> "double", bid_level |-> NoLevel, bid_suit |-> "none"],
              [bid_type |-> "normal", bid_level |-> NoLevel, bid_suit |-> "clubs"],
              [bid_type |-> "pass", bid_level |-> 1, bid_suit |-> "none"]}

-----------------------------------------------------------------------------
(* The actions                                                             *)

\* a client connects and sends its join message
Join(p) ==
    /\ Len(client_list) < MaxClients
    /\ Becomes(accept_client(Self, p))

\* the handler thread of the client at seat p receives an action
PlayCard(p, action) ==
    /\ is_human_player(Self, p)
    /\ Becomes(play_card(Self, action, p))

TakeTrick(p) ==
    /\ is_human_player(Self, p)
    /\ Becomes(take_trick(Self, p))

LockBid(p, action) ==
    /\ is_human_player(Self, p)
    /\ Len(bidding_history) < MaxBids
    /\ Becomes(lock_bid(Self, action, p))

LeaveGame(p) ==
    /\ is_human_player(Self, p)
    /\ Becomes(remove_player(Self, p))

\* the connection of the client at seat p fails or is closed by the peer
ConnectionFails(p) ==
    /\ is_human_player(Self, p)
    /\ Becomes(handle_client_without_data(Self, p))

\* update_loop calls on_update
Tick ==
    /\ update_pc = "loop"
    /\ ~(game_phase = "dealing" /\ current_game >= MaxGames)
    /\ \E shuffled \in Shuffles : Becomes(on_update(Self, shuffled))

\* the dispatcher thread wakes from a sleep inside on_update
WakeBid ==
    /\ update_pc = "opponent_bid"
    /\ Len(bidding_history) < MaxBids
    /\ \E choice \in {"pass", "bid"} : Becomes(after_bid_sleep(Self, choice))

WakePlay ==
    /\ update_pc = "opponent_play"
    /\ Becomes(after_play_sleep(Self))

WakeTrick ==
    /\ update_pc = "trick_sleep"
    /\ Becomes(after_trick_sleep(Self))

WakeScoring ==
    /\ update_pc = "scoring_sleep"
    /\ Becomes(after_scoring_sleep(Self))

Next ==
    \/ \E p \in JoinSeats : Join(p)
    \/ \E p \in Positions, action \in PlayInputs : PlayCard(p, action)
    \/ \E p \in Positions : TakeTrick(p)
    \/ \E p \in Positions, action \in BidInputs : LockBid(p, action)
    \/ \E p \in Positions : LeaveGame(p)
    \/ \E p \in Positions : ConnectionFails(p)
    \/ Tick
    \/ WakeBid
    \/ WakePlay
    \/ WakeTrick
    \/ WakeScoring

Spec == Init /\ [][Next]_vars

-----------------------------------------------------------------------------
(* The auction of the first deal under raw lock_bid messages               *)

\* longest bidding history followed under raw messages
MaxRawBids == 6

\* lock_bid messages as any program may send them: those of BidInputs and a
\* pass that carries a suit
RawBidInputs ==
    BidInputs \cup {[bid_type |-> "pass", bid_level |-> NoLevel, bid_suit |-> "clubs"]}

LockBidRaw(p, action) ==
    /\ is_human_player(Self, p)
    /\ Len(bidding_history) < MaxRawBids
    /\ Becomes(lock_bid(Self, action, p))

\* north and east have joined and the first tick has dealt
InitAuction ==
    \E shuffled \in Shuffles :
        StateIs(on_update(accept_client(accept_client(Constructed, "north"), "east"),
                          shuffled))

NextAuction ==
    \/ \E p \in Positions, action \in RawBidInputs : LockBidRaw(p, action)
    \/ Tick
    \/ WakeBid

SpecAuction == InitAuction /\ [][NextAuction]_vars


-----------------------------------------------------------------------------
(* Notions the properties are stated in                                    *)

\* the seat n places clockwise from seat
Clockwise(seat, n) ==
    LET k == CHOOSE i \in 1 .. 4 : PLAYER_POSITIONS[i] = seat
    IN  PLAYER_POSITIONS[((k - 1 + n) % 4) + 1]

TeamOf(seat) == IF seat \in {"north", "south"} THEN "northsouth" ELSE "eastwest"

\* rank of a strain and ordinal of a bid, as the specification states them
StrainRank(strain) ==
    CASE strain = "clubs" -> 0
      [] strain = "diamonds" -> 1
      [] strain = "hearts" -> 2
      [] strain = "spades" -> 3
      [] strain = "notrump" -> 4
BidOrdinal(level, strain) == StrainRank(strain) + (level - 1) * 5

\* the cards on the table, in the order they were played
Table == SelectSeq(card_list, LAMBDA c : card_location[c] = "table")
CardsIn(location) == {c \in Cards : card_location[c] = location}
HandCards(seat) == {c \in Cards : card_location[c] = "hand" /\ card_owner[c] = seat}

Connected(seat) == \E i \in 1 .. Len(client_list) : client_list[i] = seat
HasBot(seat) == \E i \in 1 .. Len(bot_list) : bot_list[i] = seat

\* the indices of the normal bids of a bidding history
NormalBids(history) == {i \in 1 .. Len(history) : history[i].type = "normal"}

\* at least 4 bids, a contract, and the last 3 bids are passes
AuctionComplete ==
    /\ Len(bidding_history) >= 4
    /\ contract_level # NoLevel
    /\ \A i \in 1 .. Len(bidding_history) :
           i > Len(bidding_history) - 3 => bidding_history[i].type = "pass"

\* an execution of on_update that gets past its occupancy test
DispatcherTick == Tick /\ Len(client_list) >= FULL_TABLE

-----------------------------------------------------------------------------
(* C1..C10: auction and play                                               *)

\* C1: in the bidding phase, when the history holds at least 4 bids, a contract
\* is set and the last 3 bids are passes, the next dispatcher tick moves the
\* phase to playing with dummy two seats and current_turn one seat clockwise
\* from declarer; the phase goes from bidding to playing in no other situation.
C1_AuctionEndsOnTick ==
    [][/\ (game_phase = "bidding" /\ AuctionComplete /\ DispatcherTick)
            => /\ game_phase' = "playing"
               /\ dummy_position' = Clockwise(declarer_position', 2)
               /\ current_turn' = Clockwise(declarer_position', 1)
       /\ (game_phase = "bidding" /\ game_phase' = "playing") => AuctionComplete
      ]_vars


\* the seat of the earliest normal bid of the history made by the contract
\* team in the contract strain
FirstBidderOfStrain ==
    LET h == bidding_history
        made == {i \in NormalBids(h) :
                    h[i].suit = contract_suit /\ h[i].team = contract_team}
    IN  h[CHOOSE i \in made : \A j \in made : i <= j].player

\* C2: at auction completion the declarer is the seat of the earliest normal
\* bid of the history that the contract team made in the contract strain; no
\* pass or double entry is taken for the declaring bid.
C2_DeclarerFirstBidStrain ==
    [][(game_phase # "playing" /\ game_phase' = "playing")
          => declarer_position' = FirstBidderOfStrain]_vars

\* C3: a lock_bid that arrives while the phase is not bidding changes neither
\* the contract, the doubled flag, the bidding history nor current_turn, even
\* from the seat on turn.
C3_NoBidOutsideBidding ==
    [][\A p \in Positions, action \in BidInputs :
          (game_phase # "bidding" /\ LockBid(p, action))
              => UNCHANGED <<contract_level, contract_suit, contract_team,
                             contract_doubled, bidding_history, current_turn>>]_vars

\* the last normal bid of the history before entry k (0 if there is none)
LastNormalBefore(history, k) ==
    LET before == {i \in NormalBids(history) : i < k}
    IN  IF before = {} THEN 0 ELSE CHOOSE i \in before : \A j \in before : j <= i

\* C4: the normal bids of the bidding history have strictly increasing
\* ordinals (strain rank + (level - 1) * 5), whoever made them, and the
\* contract is the last normal bid of the history (none before the first): a
\* pass or a double never changes contract level, strain or team.
C4_NormalBidsIncrease ==
    LET h == bidding_history
        last == LastNormalBefore(h, Len(h) + 1)
    IN  /\ \A i, j \in NormalBids(h) :
               i < j => BidOrdinal(h[i].level, h[i].suit) < BidOrdinal(h[j].level, h[j].suit)
        /\ IF last = 0
           THEN contract_level = NoLevel /\ contract_suit = "none" /\ contract_team = "none"
           ELSE /\ contract_level = h[last].level
                /\ contract_suit = h[last].suit
                /\ contract_team = TeamOf(h[last].player)

\* C4 witness: a normal bid of a client and a normal bid of a bot, a pass or
\* a double after the later of the two, and a double in the history
C4_Witness ==
    LET h == bidding_history
    IN  \E i, j \in NormalBids(h) :
            /\ i # j
            /\ Connected(h[i].player)
            /\ HasBot(h[j].player)
            /\ \E k \in 1 .. Len(h) : k > i /\ k > j /\ h[k].type # "normal"
            /\ \E k \in 1 .. Len(h) : h[k].type = "double"

\* C5: every double of the bidding history was made by a seat of the team
\* that did not hold the contract at that moment.
C5_NoDoubleOfOwnSide ==
    LET h == bidding_history
    IN  \A k \in 1 .. Len(h) :
            (h[k].type = "double" /\ LastNormalBefore(h, k) # 0)
                => TeamOf(h[k].player) # TeamOf(h[LastNormalBefore(h, k)].player)

\* a history in which every double follows a normal bid, with no other double
\* between that normal bid and itself
OneDoublePerNormalBid(h) ==
    \A k \in 1 .. Len(h) :
        h[k].type = "double"
            => /\ LastNormalBefore(h, k) # 0
               /\ \A m \in 1 .. Len(h) :
                      (LastNormalBefore(h, k) < m /\ m < k) => h[m].type # "double"

\* C6: a double that arrives while no contract is set, or while the contract
\* is already doubled, changes nothing; so no double stands before the first
\* normal bid, and between two consecutive normal bids of the history (and
\* after the last one) there is at most one double.
C6_OneDoublePerContract ==
    [][/\ \A p \in Positions, action \in BidInputs :
              (/\ action.bid_type = "double"
               /\ contract_level = NoLevel \/ contract_doubled = "yes"
               /\ LockBid(p, action))
                  => UNCHANGED vars
       /\ OneDoublePerNormalBid(bidding_history')]_vars

\* C6 witness: a doubled contract with a client on turn who can send a
\* second double
C6_Witness ==
    /\ game_phase = "bidding"
    /\ contract_doubled = "yes"
    /\ Connected(current_turn)
    /\ Len(bidding_history) < MaxBids
    /\ \E k \in 1 .. Len(bidding_history) : bidding_history[k].type = "double"

\* C7: a step that adds to the bidding history appends exactly one entry, of
\* the seat on turn, and moves current_turn one seat clockwise; a normal bid
\* sets contract level, strain and team to its own and clears the doubled
\* flag; a double sets the flag and leaves the contract; a pass leaves both.
C7_AcceptedBidEffect ==
    [][(bidding_history' # bidding_history /\ bidding_history' # <<>>)
          => LET b == bidding_history'[Len(bidding_history')]
             IN  /\ bidding_history' = Append(bidding_history, b)
                 /\ b.player = current_turn
                 /\ current_turn' = Clockwise(current_turn, 1)
                 /\ b.type = "normal"
                       => /\ contract_level' = b.level
                          /\ contract_suit' = b.suit
                          /\ contract_team' = TeamOf(b.player)
                          /\ contract_doubled' = "no"
                 /\ b.type = "double"
                       => /\ contract_doubled' = "yes"
                          /\ UNCHANGED <<contract_level, contract_suit, contract_team>>
                 /\ b.type = "pass"
                       => UNCHANGED <<contract_level, contract_suit, contract_team,
                                      contract_doubled>>]_vars

\* C7 witness: a normal bid was accepted over a doubled contract (the flag is
\* cleared), after an accepted double and accepted passes
C7_Witness ==
    LET h == bidding_history
    IN  /\ Len(h) >= 4
        /\ h[Len(h)].type = "normal"
        /\ contract_doubled = "no"
        /\ \E k \in 1 .. Len(h) : h[k].type = "double"
        /\ \E k \in 1 .. Len(h) : h[k].type = "pass"
        /\ current_turn = Clockwise(h[Len(h)].player, 1)

\* C8: play_card, lock_bid and take_trick of a client whose seat is not on
\* turn return the state they were called in (nothing changes), but for
\* take_trick of the declarer while the dummy is on turn.
C8_OffTurnActionIgnored ==
    \A p \in Positions :
        (Connected(p) /\ p # current_turn)
            => /\ \A action \in PlayInputs : play_card(Self, action, p) = Self
               /\ \A action \in BidInputs : lock_bid(Self, action, p) = Self
               /\ ~(current_turn = dummy_position /\ p = declarer_position)
                     => take_trick(Self, p) = Self

\* C8 witness: a complete trick lies on the table in the playing phase, the
\* history can still grow, and a client is connected whose seat is neither on
\* turn nor the declarer of a dummy on turn
C8_Witness ==
    /\ game_phase = "playing"
    /\ Len(Table) = 4
    /\ Len(bidding_history) < MaxBids
    /\ \E p \in Positions :
           /\ Connected(p)
           /\ p # current_turn
           /\ HandCards(p) # {}
           /\ ~(current_turn = dummy_position /\ p = declarer_position)


-----------------------------------------------------------------------------
(* The fourth card of a first trick: a specification whose initial states  *)
(* are the tables of three cards that the plays of the seats left of the   *)
(* declarer can have produced, over every trump and every holding of the   *)
(* fourth seat.  North and east are clients, south and west bots; when the *)
(* fourth seat is a bot the dispatcher is asleep in opponent_play.         *)

TrickDeclarers == {"north", "west"}

\* the elements of a set of cards in increasing order
RECURSIVE SortedSeq(_)
SortedSeq(set) ==
    IF set = {} THEN <<>>
    ELSE LET least == CHOOSE x \in set : \A y \in set : x <= y
         IN  <<least>> \o SortedSeq(set \ {least})

\* the passes before the declarer's bid, the bid, and the three passes after it
TrickAuction(declarer, trump) ==
    LET before == IndexOf(PLAYER_POSITIONS, declarer)
        seat(i) == PLAYER_POSITIONS[((i - 1) % 4) + 1]
    IN  [i \in 1 .. (before + 4) |->
            IF i = before + 1
            THEN Bid(seat(i), "normal", 1, trump)
            ELSE Bid(seat(i), "pass", NoLevel, "none")]

InitTrick ==
    \E declarer \in TrickDeclarers, trump \in Range(SUITS),
       t \in [1 .. 3 -> Cards], mine \in SUBSET Cards :
        LET played == {t[1], t[2], t[3]}
            rest == SortedSeq(Cards \ (played \cup mine))
            seat(i) == Clockwise(declarer, i)
            \* the seat that holds rest[k]: HandSize - 1 cards each
            holder(k) == seat(((k - 1) \div (HandSize - 1)) + 1)
            owner(c) ==
                IF c \in mine THEN declarer
                ELSE IF c \in played THEN seat(CHOOSE i \in 1 .. 3 : t[i] = c)
                ELSE holder(CHOOSE k \in 1 .. Len(rest) : rest[k] = c)
            lead == CardSuit(t[1])
        IN  /\ Cardinality(played) = 3
            /\ Cardinality(mine) = HandSize
            /\ mine \cap played = {}
            \* the second and the third seat have followed suit if they could
            /\ \A i \in 2 .. 3 :
                   CardSuit(t[i]) # lead
                       => \A k \in 1 .. Len(rest) :
                              holder(k) = seat(i) => CardSuit(rest[k]) # lead
            /\ StateIs([Constructed EXCEPT
                   !.game_phase = "playing",
                   !.client_list = <<"north", "east">>,
                   !.bot_list = <<"south", "west">>,
                   !.current_turn = declarer,
                   !.contract_suit = trump,
                   !.contract_level = 1,
                   !.contract_team = allocate_team(declarer),
                   !.current_game = 1,
                   !.declarer_position = declarer,
                   !.dummy_position = Clockwise(declarer, 2),
                   !.card_list = SortedSeq(Cards \ played) \o t,
                   !.card_location = [c \in Cards |->
                                         IF c \in played THEN "table" ELSE "hand"],
                   !.card_owner = [c \in Cards |-> owner(c)],
                   !.bidding_history = TrickAuction(declarer, trump),
                   !.update_pc = IF declarer \in {"north", "east"}
                                 THEN "loop" ELSE "opponent_play"])

NextTrick ==
    \/ \E p \in Positions, action \in PlayInputs : PlayCard(p, action)
    \/ \E p \in Positions : TakeTrick(p)
    \/ WakePlay

SpecTrick == InitTrick /\ [][NextTrick]_vars

\* the card that wins a trick: the highest trump if a trump lies in it, else
\* the highest card of the suit of its first card
Winner(trick, trump) ==
    LET trumps == {i \in 1 .. Len(trick) : CardSuit(trick[i]) = trump}
        led == {i \in 1 .. Len(trick) : CardSuit(trick[i]) = CardSuit(trick[1])}
        pool == IF trumps # {} THEN trumps ELSE led
    IN  trick[CHOOSE i \in pool :
                  \A j \in pool : CardOrdinal(trick[j]) <= CardOrdinal(trick[i])]

\* C9: the step that puts the fourth card of a trick on the table sets
\* current_turn to the owner of the winning card: the highest trump (card of
\* the contract strain) of the four if there is one, else the highest card of
\* the suit of the first card; for a client's play and a bot's play, every
\* three cards on the table, every trump and every fourth card.
C9_TrickWinnerLeads ==
    [][(Len(Table) = 3 /\ Len(Table') = 4)
          => current_turn' = card_owner'[Winner(Table', contract_suit')]]_vars

\* C9 witness: four cards on the table, the first of a plain suit, a trump
\* among the other three, and the seat of the highest trump on turn
C9_Witness ==
    /\ game_phase = "playing"
    /\ Len(Table) = 4
    /\ CardSuit(Table[1]) # contract_suit
    /\ \E i \in 2 .. 4 : CardSuit(Table[i]) = contract_suit
    /\ \E i \in 2 .. 4 : CardSuit(Table[i]) = CardSuit(Table[1])
                            /\ CardOrdinal(Table[i]) > CardOrdinal(Table[1])
    /\ current_turn = card_owner[Winner(Table, contract_suit)]

\* C10: a card that goes from a hand to a table that is not empty is of the
\* suit of the first card on the table, or its seat held no card of that suit
\* when it played; for a client's play and a bot's play.
C10_FollowSuit ==
    [][\A c \in Cards :
          (card_location[c] = "hand" /\ card_location'[c] = "table" /\ Len(Table) > 0)
              => \/ CardSuit(c) = CardSuit(Table[1])
                 \/ \A d \in HandCards(card_owner[c]) :
                        CardSuit(d) # CardSuit(Table[1])]_vars

\* C10 witness: a trick in progress whose second card is a discard, with a
\* client on turn who holds a card of the suit led and a card of another suit
C10_Witness ==
    /\ game_phase = "playing"
    /\ Len(Table) \in 2 .. 3
    /\ CardSuit(Table[2]) # CardSuit(Table[1])
    /\ Connected(current_turn)
    /\ \E c, d \in HandCards(current_turn) :
           CardSuit(c) = CardSuit(Table[1]) /\ CardSuit(d) # CardSuit(Table[1])


\* the card a play_card message names (0 if it names none)
NamedCard(action) ==
    IF \E c \in Cards : CardSuit(c) = action.card_suit /\ CardValue(c) = action.card_value
    THEN CHOOSE c \in Cards : CardSuit(c) = action.card_suit /\ CardValue(c) = action.card_value
    ELSE 0

\* C11: play_card of the seat on turn changes no card's location or owner,
\* nor current_turn, when the phase is not playing, when four cards lie on
\* the table, or when the card it names is not in the hand of that seat.
C11_PlayRejected ==
    \A action \in PlayInputs :
        (/\ Connected(current_turn)
         /\ \/ game_phase # "playing"
            \/ Len(Table) = 4
            \/ NamedCard(action) \notin HandCards(current_turn))
            => LET after == play_card(Self, action, current_turn)
               IN  /\ after.card_location = card_location
                   /\ after.card_owner = card_owner
                   /\ after.current_turn = current_turn

\* C11 witness: a client is on turn in the playing phase, the trick is open,
\* and there are cards in another hand, on the table and in the tricks pile
C11_Witness ==
    /\ game_phase = "playing"
    /\ Connected(current_turn)
    /\ Len(Table) \in 1 .. 3
    /\ HandCards(current_turn) # {}
    /\ CardsIn("tricks") # {}
    /\ \E p \in Positions : p # current_turn /\ HandCards(p) # {}

\* C12: take_trick moves no card, turns none and tags none unless four cards
\* lie on the table and the requesting seat is on turn, or is the declarer
\* while the dummy is on turn.
C12_TakeTrickGuard ==
    \A p \in Positions :
        (/\ Connected(p)
         /\ ~(/\ Len(Table) = 4
              /\ \/ p = current_turn
                 \/ current_turn = dummy_position /\ p = declarer_position))
            => LET after == take_trick(Self, p)
               IN  /\ after.card_location = card_location
                   /\ after.card_facing = card_facing
                   /\ after.card_trick = card_trick

\* C12 witness: a client on turn in the playing phase with an open trick of
\* three cards, after a first trick was taken
C12_Witness ==
    /\ game_phase = "playing"
    /\ Connected(current_turn)
    /\ Len(Table) = 3
    /\ CardsIn("tricks") # {}


\* C13: a step that claims a trick (a card goes from the table to the tricks
\* pile) moves all four table cards face-down to the tricks pile and tags
\* them with the team of the seat whose card wins the trick (highest trump,
\* else highest card of the suit led), whatever the clients did between the
\* fourth card and the claim.
C13_TrickGoesToWinner ==
    [][(\E c \in Cards : card_location[c] = "table" /\ card_location'[c] = "tricks")
          => /\ Len(Table) = 4
             /\ \A c \in Range(Table) :
                    /\ card_location'[c] = "tricks"
                    /\ card_facing'[c] = "down"
                    /\ card_trick'[c] = TeamOf(card_owner[Winner(Table, contract_suit)])]_vars

\* every card of the deck is in the tricks pile
AllClaimed == \A c \in Cards : card_location[c] = "tricks"

\* a step of the dispatcher thread that ends the execution of on_update it is
\* in (the thread is not left asleep in opponent_play)
TickCompletes ==
    /\ DispatcherTick \/ WakePlay \/ WakeTrick
    /\ update_pc' # "opponent_play"

\* C14: the phase enters scoring only with all cards of the deck in the
\* tricks pile, and the execution of on_update that finds the phase playing
\* and all cards in the tricks pile enters scoring.
C14_ScoringAtLastTrick ==
    [][/\ (game_phase # "scoring" /\ game_phase' = "scoring") => AllClaimed'
       /\ (game_phase = "playing" /\ AllClaimed /\ TickCompletes)
              => game_phase' = "scoring"]_vars


-----------------------------------------------------------------------------
(* Two deals: a specification that starts with the clients of north and    *)
(* east connected and runs MaxDeals deals, each to its end.  The clients   *)
(* bid 1 clubs, pass or double; no client joins or leaves.                 *)

MaxDeals == 2

RedealBidInputs ==
    {[bid_type |-> "normal", bid_level |-> 1, bid_suit |-> "clubs"],
     [bid_type |-> "pass", bid_level |-> NoLevel, bid_suit |-> "none"],
     [bid_type |-> "double", bid_level |-> NoLevel, bid_suit |-> "none"]}

LockBidRedeal(p, action) ==
    /\ is_human_player(Self, p)
    /\ Len(bidding_history) < MaxBids
    /\ Becomes(lock_bid(Self, action, p))

\* update_loop calls on_update; no deal after the last of MaxDeals deals
TickRedeal ==
    /\ update_pc = "loop"
    /\ ~(game_phase = "dealing" /\ current_game >= MaxDeals)
    /\ \E shuffled \in Shuffles : Becomes(on_update(Self, shuffled))

InitRedeal == StateIs(accept_client(accept_client(Constructed, "north"), "east"))

NextRedeal ==
    \/ \E p \in Positions, action \in PlayInputs : PlayCard(p, action)
    \/ \E p \in Positions : TakeTrick(p)
    \/ \E p \in Positions, action \in RedealBidInputs : LockBidRedeal(p, action)
    \/ TickRedeal
    \/ WakeBid
    \/ WakePlay
    \/ WakeTrick
    \/ WakeScoring

SpecRedeal == InitRedeal /\ [][NextRedeal]_vars


\* C15: right after every deal (the step that raises the deal counter) each
\* of the four seats owns exactly HandSize cards in location hand, and no
\* card is in the deck, on the table or in the tricks pile.
C15_DealGivesFullHands ==
    [][current_game' # current_game
          => /\ \A seat \in Positions :
                    Cardinality({c \in Cards : /\ card_location'[c] = "hand"
                                               /\ card_owner'[c] = seat}) = HandSize
             /\ \A c \in Cards : card_location'[c] \notin {"deck", "table", "tricks"}]_vars

\* C15 witness: the second deal has just been dealt, after a first deal whose
\* tricks were taken
C15_Witness ==
    /\ current_game = 2
    /\ game_phase = "bidding"
    /\ bidding_history = <<>>
    /\ score # 0
    /\ \A seat \in Positions : Cardinality(HandCards(seat)) = HandSize

\* C16: after every step the card list holds the DeckSize cards of the deck,
\* each once; from the first deal on every card is in a hand, on the table or
\* in the tricks pile and has an owner; within a deal the owner of a card
\* stays and its location only goes from hand to table and from table to
\* tricks; the number of cards in the tricks pile is a multiple of 4.
C16_CardsPartition ==
    [][/\ Len(card_list') = DeckSize
       /\ Range(card_list') = Cards
       /\ current_game' >= 1
             => \A c \in Cards : /\ card_location'[c] \in {"hand", "table", "tricks"}
                                 /\ card_owner'[c] \in Positions
       /\ (current_game >= 1 /\ current_game' = current_game)
             => \A c \in Cards :
                    /\ card_owner'[c] = card_owner[c]
                    /\ \/ card_location'[c] = card_location[c]
                       \/ card_location[c] = "hand" /\ card_location'[c] = "table"
                       \/ card_location[c] = "table" /\ card_location'[c] = "tricks"
       /\ Cardinality({c \in Cards : card_location'[c] = "tricks"}) % 4 = 0]_vars

\* C16 witness: in the second deal there are cards in hands, on the table and
\* in the tricks pile
C16_Witness ==
    /\ current_game = 2
    /\ CardsIn("hand") # {}
    /\ CardsIn("table") # {}
    /\ CardsIn("tricks") # {}

\* C17: right after every deal every card is face-up, in a hand, owned by a
\* seat and without a team tag.
C17_DealResetsCards ==
    [][current_game' # current_game
          => \A c \in Cards : /\ card_facing'[c] = "up"
                              /\ card_location'[c] = "hand"
                              /\ card_owner'[c] \in Positions
                              /\ card_trick'[c] = "none"]_vars


\* the step moves the turn one seat clockwise
TurnAdvances == current_turn' = Clockwise(current_turn, 1)

\* the step resolves a trick of four cards and gives the turn to its winner
TurnToTrickWinner ==
    \/ /\ Len(Table) = 4
       /\ current_turn' = card_owner[Winner(Table, contract_suit)]
    \/ /\ Len(Table') = 4
       /\ current_turn' = card_owner'[Winner(Table', contract_suit')]

\* the step completes the auction and gives the turn to the seat left of declarer
TurnToLeftOfDeclarer ==
    /\ game_phase # "playing"
    /\ game_phase' = "playing"
    /\ current_turn' = Clockwise(declarer_position', 1)

\* the step runs resetting_logic and gives the turn to the dealer of the next deal
TurnToNextDealer ==
    /\ game_phase' = "dealing"
    /\ game_phase # "dealing" \/ current_game' # current_game
    /\ current_turn' = chicago_rotate(current_game' + 1)[1]

\* C18 as stated: every change of current_turn is a move to the next seat
\* clockwise, or the assignment of trick resolution (to the winner of the
\* trick) or of auction completion (to the seat left of declarer).
C18_TurnChanges ==
    [][current_turn' # current_turn
          => TurnAdvances \/ TurnToTrickWinner \/ TurnToLeftOfDeclarer]_vars

\* C18 amended: every change of current_turn is a move to the next seat
\* clockwise, or the assignment of trick resolution, of auction completion,
\* or of the reset at the end of a deal (to the dealer of the next deal).
C18_TurnChangesOrReset ==
    [][current_turn' # current_turn
          => \/ TurnAdvances
             \/ TurnToTrickWinner
             \/ TurnToLeftOfDeclarer
             \/ TurnToNextDealer]_vars

\* C18 witness: the reset after a played and scored deal has given the turn
\* to the dealer of the second deal
C18_Witness ==
    /\ game_phase = "dealing"
    /\ current_game = 1
    /\ score # 0
    /\ AllClaimed
    /\ current_turn = chicago_rotate(2)[1]

-----------------------------------------------------------------------------
(* The rotation: a specification whose initial states are the passed-out   *)
(* auctions of the deals 1 .. MaxRound (every deal before was passed out   *)
(* too), and whose step is the execution of on_update that resets the      *)
(* table and rotates dealer and vulnerability for the next deal.           *)

MaxRound == 48

\* four passes, the first by the dealer
PassedOut(dealer) ==
    LET first == IndexOf(PLAYER_POSITIONS, dealer)
    IN  [i \in 1 .. 4 |->
            Bid(PLAYER_POSITIONS[((first + i - 1) % 4) + 1], "pass", NoLevel, "none")]

InitRotate ==
    \E round_number \in 1 .. MaxRound, shuffled \in Shuffles :
        LET rotation == chicago_rotate(round_number)
            joined == accept_client(accept_client(Constructed, "north"), "east")
            dealt == deal_cards([joined EXCEPT !.current_game = round_number - 1,
                                               !.current_turn = rotation[1],
                                               !.vulnerability = rotation[2]],
                                shuffled)
        IN  StateIs([dealt EXCEPT !.bidding_history = PassedOut(rotation[1])])

SpecRotate == InitRotate /\ [][Tick]_vars

\* the rotation as the claim states it
Seats == <<"north", "east", "south", "west">>
RotationOf(n) ==
    LET index == n - 1
        block == (index \div 4) % 4
        position == index % 4
        dealer == Seats[((block + position) % 4) + 1]
    IN  <<dealer,
          IF position = 0 THEN "none"
          ELSE IF position = 3 THEN "both"
          ELSE TeamOf(dealer)>>

\* C19: for every deal number n >= 1 chicago_rotate(n) is the dealer
\* seats[(block + position) mod 4], with index = n - 1, block = (index div 4)
\* mod 4 and position = index mod 4, and the vulnerability none at position
\* 0, both at position 3 and else the partnership of that dealer; and the
\* reset after deal n leaves current_turn and vulnerability at these values
\* for n + 1.
C19_RotationFormula ==
    /\ current_game >= 1 => chicago_rotate(current_game) = RotationOf(current_game)
    /\ game_phase = "dealing"
           => <<current_turn, vulnerability>> = RotationOf(current_game + 1)

\* C19 witness: the reset after deal 5 has made south the dealer of deal 6
\* (second block, position 1) and north-south vulnerable
C19_Witness ==
    /\ game_phase = "dealing"
    /\ current_game = 5
    /\ current_turn = "south"
    /\ vulnerability = "northsouth"

\* C20: chicago_rotate(n + 16) = chicago_rotate(n) for every n >= 1, and no
\* shift k of 1 .. 15 gives chicago_rotate(n + k) = chicago_rotate(n) for all
\* the deals n of 1 .. 16.
C20_RotationPeriod ==
    /\ current_game >= 1
           => chicago_rotate(current_game + 16) = chicago_rotate(current_game)
    /\ \A k \in 1 .. 15 :
           \E n \in 1 .. 16 : chicago_rotate(n + k) # chicago_rotate(n)

\* C20 witness: the reset after deal 20 has set dealer and vulnerability of
\* deal 21 as they were for deal 5
C20_Witness ==
    /\ game_phase = "dealing"
    /\ current_game = 20
    /\ <<current_turn, vulnerability>> = chicago_rotate(5)
    /\ <<current_turn, vulnerability>> # chicago_rotate(20)

-----------------------------------------------------------------------------
(* The deal cycle                                                          *)

\* the step brings the table into the bidding phase of a new deal
EntersBidding == game_phase # "bidding" /\ game_phase' = "bidding"

\* C21: whenever the phase enters bidding for the deal with deal counter n,
\* current_turn is the dealer and vulnerability the vulnerability that
\* chicago_rotate(n) returns, after any client actions and ticks before.
C21_DealerAndVulnerabilityAtDeal ==
    [][EntersBidding
          => <<current_turn', vulnerability'>> = chicago_rotate(current_game')]_vars

\* no bid is recorded, no contract is set and declarer and dummy are unset
FreshAuction ==
    /\ bidding_history = <<>>
    /\ contract_level = NoLevel
    /\ contract_suit = "none"
    /\ contract_team = "none"
    /\ contract_doubled = "no"
    /\ declarer_position = "none"
    /\ dummy_position = "none"

\* C22: whenever the phase enters bidding for a new deal the auction state is
\* fresh: the bidding history is empty, contract level, strain and team are
\* unset, the doubled flag is off and declarer and dummy are unset, whatever
\* the clients sent in the deal before and between the reset and the deal.
C22_FreshAuctionAtDeal ==
    [][EntersBidding => FreshAuction']_vars

-----------------------------------------------------------------------------
(* The scoring engine: a specification whose initial states are the calls  *)
(* chicago_score(contract_level, contract_suit, doubled,                   *)
(* declarer_vulnerable, tricks_made) for every level, strain, doubling,    *)
(* vulnerability and number of tricks, and whose step is the return of     *)
(* the call.                                                               *)

MaxContractLevel == 7
TricksPerDeal == 13

ScoreInputs ==
    (1 .. MaxContractLevel) \X Range(SUITS) \X {"", "X", "XX"} \X BOOLEAN
        \X (0 .. TricksPerDeal)

InitScore ==
    /\ FieldsAre(Constructed)
    /\ score_args \in ScoreInputs
    /\ score_result = <<>>

\* the call returns its breakdown
ScoreReturns ==
    /\ score_args # <<>>
    /\ score_result = <<>>
    /\ score_result' = <<chicago_score(score_args[1], score_args[2], score_args[3],
                                       score_args[4], score_args[5])>>
    /\ UNCHANGED <<fields, score_args>>

SpecScore == InitScore /\ [][ScoreReturns]_vars

\* the call has returned; its arguments and its breakdown
Scored == score_result # <<>>
ArgLevel == score_args[1]
ArgStrain == score_args[2]
ArgDoubled == score_args[3]
ArgVulnerable == score_args[4]
ArgTricks == score_args[5]
Breakdown == score_result[1]
ContractMade == ArgTricks >= 6 + ArgLevel

\* C23: for every input (level 1..7, strain, undoubled / doubled /
\* redoubled, vulnerable or not, 0..13 tricks) the breakdown satisfies total =
\* contract_points + overtricks + bonuses + penalty; penalty = 0 when the
\* contract is made (tricks_made >= 6 + level); bonuses = 0, contract_points
\* = 0 and overtricks = 0 when it is down.
C23_BreakdownAddsUp ==
    Scored =>
        /\ Breakdown.total = Breakdown.contract_points + Breakdown.overtricks
                                 + Breakdown.bonuses + Breakdown.penalty
        /\ ContractMade => Breakdown.penalty = 0
        /\ ~ContractMade => /\ Breakdown.bonuses = 0
                            /\ Breakdown.contract_points = 0
                            /\ Breakdown.overtricks = 0

\* C23 witness: 1 clubs, undoubled, not vulnerable, five tricks: down two, the
\* total is the penalty entry alone
C23_Witness ==
    /\ Scored
    /\ score_args = <<1, "clubs", "", FALSE, 5>>
    /\ Breakdown.penalty = -100
    /\ Breakdown.total = -100
    /\ Breakdown.bonuses = 0

\* the reference of the claim for a made contract
TrickValue(strain) == IF strain \in {"clubs", "diamonds"} THEN 20 ELSE 30
Multiplier(doubled) == IF doubled = "" THEN 1 ELSE IF doubled = "X" THEN 2 ELSE 4
RefContractPoints(level, strain, doubled) ==
    (level * TrickValue(strain) + (IF strain = "notrump" THEN 10 ELSE 0))
        * Multiplier(doubled)
RefOvertrick(strain, doubled, vulnerable) ==
    IF doubled = "" THEN TrickValue(strain)
    ELSE IF doubled = "X" THEN (IF vulnerable THEN 200 ELSE 100)
    ELSE (IF vulnerable THEN 400 ELSE 200)
RefSlamBonus(level, vulnerable) ==
    IF level = 6 THEN (IF vulnerable THEN 750 ELSE 500)
    ELSE IF level = 7 THEN (IF vulnerable THEN 1500 ELSE 1000)
    ELSE 0
RefInsultBonus(doubled) ==
    IF doubled = "X" THEN 50 ELSE IF doubled = "XX" THEN 100 ELSE 0

\* C24: for every made contract the breakdown is the reference: contract
\* points (level * trick value, + 10 in notrump) * multiplier, with trick
\* value 20 in the minors and 30 otherwise and multiplier 1 / 2 / 4; each
\* overtrick the trick value undoubled, 100 / 200 doubled, 200 / 400
\* redoubled; part-score bonus 50 below 100 contract points, else game bonus
\* 300 / 500; slam bonus 500 / 750 at level 6, 1000 / 1500 at level 7; insult
\* bonus 50 doubled, 100 redoubled; the total is their sum. 4 spades made
\* exactly totals 420, 1 notrump with nine tricks 150.
C24_MadeContractScore ==
    /\ Scored /\ ContractMade =>
        LET points == RefContractPoints(ArgLevel, ArgStrain, ArgDoubled)
            over == (ArgTricks - (6 + ArgLevel))
                        * RefOvertrick(ArgStrain, ArgDoubled, ArgVulnerable)
            part == IF points < 100 THEN 50 ELSE 0
            game == IF points < 100 THEN 0 ELSE IF ArgVulnerable THEN 500 ELSE 300
            slam == RefSlamBonus(ArgLevel, ArgVulnerable)
            insult == RefInsultBonus(ArgDoubled)
        IN  /\ Breakdown.contract_points = points
            /\ Breakdown.overtricks = over
            /\ Breakdown.part_score_bonus = part
            /\ Breakdown.game_bonus = game
            /\ Breakdown.slam_bonus = slam
            /\ Breakdown.insult_bonus = insult
            /\ Breakdown.bonuses = part + game + slam + insult
            /\ Breakdown.total = points + over + part + game + slam + insult
    /\ score_args = <<4, "spades", "", FALSE, 10>> /\ Scored
           => Breakdown.total = 420
    /\ score_args = <<1, "notrump", "", FALSE, 9>> /\ Scored
           => Breakdown.total = 150

\* C24 witness: 4 spades made exactly, undoubled, not vulnerable: 120
\* contract points and the game bonus of 300
C24_Witness ==
    /\ Scored
    /\ score_args = <<4, "spades", "", FALSE, 10>>
    /\ Breakdown.contract_points = 120
    /\ Breakdown.game_bonus = 300
    /\ Breakdown.total = 420

\* the penalty of the claim for d undertricks
RefPenalty(doubled, vulnerable, d) ==
    LET once == IF vulnerable THEN 200 + (d - 1) * 300 ELSE 100 + (d - 1) * 200
    IN  IF doubled = "" THEN d * (IF vulnerable THEN 100 ELSE 50)
        ELSE IF doubled = "X" THEN once
        ELSE 2 * once

\* C25: for every contract down by d = (6 + level) - tricks_made >= 1 the
\* total is minus the penalty, the penalty being d * 50 (d * 100 vulnerable)
\* undoubled, 100 + (d - 1) * 200 (200 + (d - 1) * 300 vulnerable) doubled,
\* and twice the doubled penalty redoubled. 3 hearts doubled vulnerable down
\* two totals -500.
C25_DownContractScore ==
    Scored /\ ~ContractMade =>
        Breakdown.total
            = -RefPenalty(ArgDoubled, ArgVulnerable, (6 + ArgLevel) - ArgTricks)

\* C25 witness: 3 hearts doubled, vulnerable, seven tricks: down two, total -500
C25_Witness ==
    /\ Scored
    /\ score_args = <<3, "hearts", "X", TRUE, 7>>
    /\ Breakdown.total = -500

-----------------------------------------------------------------------------
(* The cumulative score                                                    *)

\* the signed total of the claim for the contract and the tricks of state s
SignedTotal(s) ==
    LET tagged == {c \in Cards : s.card_trick[c] = s.contract_team}
        vulnerable == s.vulnerability = "both" \/ s.vulnerability = s.contract_team
        doubled == IF s.contract_doubled = "yes" THEN "X" ELSE ""
        total == chicago_score(s.contract_level, s.contract_suit, doubled,
                               vulnerable, Cardinality(tagged) \div 4).total
    IN  IF s.contract_team = "northsouth" THEN total ELSE -total

\* the step is the scoring step of the dispatcher: it leaves the thread in
\* the sleep of scoring_logic
ScoringStep == update_pc # "scoring_sleep" /\ update_pc' = "scoring_sleep"

\* C26: the cumulative score changes only in the scoring step, once per
\* played deal, and by sign * total, with total the score of the contract
\* (level, strain, doubled flag), vulnerable = (vulnerability is both or the
\* contract team) and tricks_made = the number of tricks tagged with the
\* contract team, sign +1 for northsouth and -1 for eastwest; a passed-out
\* deal leaves the score unchanged.
C26_ScoreChange ==
    [][/\ score' # score => ScoringStep
       /\ ScoringStep
              => /\ game_phase' = "scoring"
                 /\ current_game' = current_game
                 /\ contract_level' # NoLevel
                 /\ \A c \in Cards : card_trick'[c] # "none"
                 /\ Cardinality({c \in Cards : card_trick'[c] = contract_team'}) % 4 = 0
                 /\ score' = score + SignedTotal(Self')
       /\ update_pc = "scoring_sleep" /\ update_pc' # "scoring_sleep"
              => /\ game_phase' = "dealing"
                 /\ current_game' = current_game
                 /\ score' = score
       /\ game_phase = "bidding" /\ game_phase' \in {"resetting", "dealing"}
              => score' = score]_vars

\* C26 witness: a contract of east-west went down and the scoring step has
\* credited north-south
C26_Witness ==
    /\ update_pc = "scoring_sleep"
    /\ game_phase = "scoring"
    /\ contract_team = "eastwest"
    /\ score = SignedTotal(Self)
    /\ score > 0

-----------------------------------------------------------------------------
(* The phases                                                              *)

\* the edges of the claim
PhaseEdges ==
    {<<"dealing", "bidding">>, <<"bidding", "playing">>, <<"playing", "scoring">>,
     <<"scoring", "resetting">>, <<"resetting", "dealing">>,
     <<"bidding", "resetting">>}

\* the phase before the k-th assignment of a run that starts in phase start
PhaseBefore(start, log, k) == IF k = 1 THEN start ELSE log[k - 1]

\* every assignment of the log follows an edge
AlongEdges(start, log) ==
    \A k \in 1 .. Len(log) : <<PhaseBefore(start, log, k), log[k]>> \in PhaseEdges

\* the log goes from bidding to resetting
SkipsPlay(start, log) ==
    \E k \in 1 .. Len(log) :
        PhaseBefore(start, log, k) = "bidding" /\ log[k] = "resetting"

\* at least four bids, the last four all passes, and no contract set
PassedOutAuction ==
    /\ Len(bidding_history) >= 4
    /\ \A i \in (Len(bidding_history) - 3) .. Len(bidding_history) :
           bidding_history[i].type = "pass"
    /\ contract_level = NoLevel

\* the run of the dispatcher that ends in state s changes the phase along
\* the edges only
DispatcherAlongEdges(s) ==
    /\ AlongEdges(game_phase, s.phase_log)
    /\ s.phase_log # <<>> => s.game_phase = s.phase_log[Len(s.phase_log)]
    /\ s.phase_log = <<>> => s.game_phase = game_phase
    /\ SkipsPlay(game_phase, s.phase_log) => PassedOutAuction

\* the handler of a client action that ends in state s leaves the phase alone
ClientKeepsPhase(s) == s.phase_log = <<>> /\ s.game_phase = game_phase

\* C27: the phase changes only along the edges dealing to bidding, bidding
\* to playing, playing to scoring, scoring to resetting, resetting to
\* dealing, and bidding to resetting on a passed-out auction; no client
\* action changes the phase.
C27_PhaseEdges ==
    /\ update_pc = "loop"
           => \A shuffled \in Shuffles : DispatcherAlongEdges(on_update(Self, shuffled))
    /\ update_pc = "opponent_bid"
           => \A choice \in {"pass", "bid"} :
                  DispatcherAlongEdges(after_bid_sleep(Self, choice))
    /\ update_pc = "opponent_play" => DispatcherAlongEdges(after_play_sleep(Self))
    /\ update_pc = "trick_sleep" => DispatcherAlongEdges(after_trick_sleep(Self))
    /\ update_pc = "scoring_sleep" => DispatcherAlongEdges(after_scoring_sleep(Self))
    /\ \A p \in Positions :
           /\ \A action \in PlayInputs : ClientKeepsPhase(play_card(Self, action, p))
           /\ \A action \in BidInputs : ClientKeepsPhase(lock_bid(Self, action, p))
           /\ ClientKeepsPhase(take_trick(Self, p))
           /\ ClientKeepsPhase(remove_player(Self, p))
           /\ ClientKeepsPhase(accept_client(Self, p))

\* C27 witness: a deal has been dealt, bid and played, the score is
\* updated, and the dispatcher is about to go from scoring over resetting
\* to dealing
C27_Witness ==
    /\ game_phase = "scoring"
    /\ update_pc = "scoring_sleep"
    /\ current_game = 1
    /\ after_scoring_sleep(Self).phase_log = <<"resetting", "dealing">>
    /\ after_scoring_sleep(Self).game_phase = "dealing"

\* the log holds phase
Assigns(log, phase) == \E k \in 1 .. Len(log) : log[k] = phase

\* the run of on_update that ends in state s has reset the table, and the
\* run after it deals the next deal
ResetsAndRedeals(s) ==
    /\ Assigns(s.phase_log, "resetting")
    /\ s.game_phase = "dealing"
    /\ s.update_pc = "loop"
    /\ s.bidding_history = <<>>
    /\ s.score = score
    /\ \A shuffled \in Shuffles :
           LET next == on_update([s EXCEPT !.phase_log = <<>>], shuffled)
           IN  /\ next.current_game = s.current_game + 1
               /\ next.phase_log # <<>>
               /\ next.phase_log[1] = "bidding"
               /\ \A c \in Cards : /\ next.card_location[c] = "hand"
                                   /\ next.card_owner[c] \in Positions

\* C28: a passed-out auction (at least four bids, the last four all passes,
\* no contract set) moves the phase to resetting on the next tick of the
\* dispatcher and leads to a new deal being dealt; and the phase never moves
\* from bidding to resetting while a contract is set.
C28_PassedOutRedeal ==
    /\ PassedOutAuction /\ game_phase = "bidding" /\ update_pc = "loop"
           /\ Len(client_list) >= FULL_TABLE
           => \A shuffled \in Shuffles : ResetsAndRedeals(on_update(Self, shuffled))
    /\ update_pc = "loop" /\ contract_level # NoLevel
           => \A shuffled \in Shuffles :
                  ~SkipsPlay(game_phase, on_update(Self, shuffled).phase_log)
    /\ update_pc = "opponent_bid"
           => \A choice \in {"pass", "bid"} :
                  ~SkipsPlay(game_phase, after_bid_sleep(Self, choice).phase_log)
    /\ update_pc = "opponent_play"
           => ~SkipsPlay(game_phase, after_play_sleep(Self).phase_log)
    /\ update_pc = "trick_sleep"
           => ~SkipsPlay(game_phase, after_trick_sleep(Self).phase_log)

\* C28 witness: the first deal was passed out (no trick taken, no score) and
\* the second deal is dealt
C28_Witness ==
    /\ current_game = 2
    /\ game_phase = "bidding"
    /\ score = 0
    /\ \A c \in Cards : card_trick[c] = "none" /\ card_location[c] = "hand"
    /\ <<current_turn, vulnerability>> = chicago_rotate(2)

-----------------------------------------------------------------------------
(* The occupancy threshold                                                 *)

-----------------------------------------------------------------------------
(* Leaving the table                                                       *)

\* the step removes the connection of seat from the connected set
Leaves(seat) == Connected(seat) /\ ~Connected(seat)'

\* C30 (its part on the leave itself): after a leave_game action from a seat
\* that connection is no longer in the connected set and the seat is
\* bot-controlled, so that the dispatcher bids and plays for it when it is on
\* turn; and the leave changes no card, bid, contract or turn of the trick or
\* auction in flight.
C30_LeaveGivesSeatToBot ==
    [][\A seat \in Positions :
           /\ remove_player(Self, seat).client_list # client_list
                  => \A i \in 1 .. Len(remove_player(Self, seat).client_list) :
                         remove_player(Self, seat).client_list[i] # seat
           /\ Leaves(seat)
                  => /\ HasBot(seat)'
                     /\ UNCHANGED <<card_list, card_facing, card_location, card_owner,
                                    card_trick, bidding_history, contract_level,
                                    contract_suit, contract_team, contract_doubled,
                                    current_turn>>]_vars

-----------------------------------------------------------------------------
(* Errors                                                                  *)

\* seat is held by a client / has a bot entry in the server record s
ConnectedIn(s, seat) == \E i \in 1 .. Len(s.client_list) : s.client_list[i] = seat
HasBotIn(s, seat) == \E i \in 1 .. Len(s.bot_list) : s.bot_list[i] = seat

\* C31: when the connection of a client fails or closes without a leave_game
\* action (a read returns an error or end-of-stream), the server removes the
\* client from the connected set and releases its seat to bot control.
C31_FailedConnectionIsDisconnect ==
    \A seat \in Positions :
        Connected(seat)
            => /\ ~ConnectedIn(handle_client_without_data(Self, seat), seat)
               /\ HasBotIn(handle_client_without_data(Self, seat), seat)

\* C32: no reachable state halts the dispatcher loop: a failed seat or card
\* lookup during a tick (no bot entry for the seat on turn in bidding, no
\* player entry for the declaring seat at auction end, no card left in the
\* hand of the seat on turn in playing) aborts that step only, and later
\* ticks still run.
C32_DispatcherNeverHalts == update_pc # "dead"

-----------------------------------------------------------------------------
(* The bot in the auction: a specification whose initial states are the    *)
(* first deal after the opening of the dealer north (a client): a pass or  *)
(* any normal bid; from then on the clients at north and east pass when on *)
(* turn and the dispatcher bids for south and west. The dispatcher keeps   *)
(* ticking and the clients keep answering (weak fairness).                 *)

StockPass == [bid_type |-> "pass", bid_level |-> NoLevel, bid_suit |-> "none"]

Openings ==
    {[bid_type |-> "normal", bid_level |-> l, bid_suit |-> SUITS[k]] :
        l \in 1 .. MaxContractLevel, k \in 1 .. Len(SUITS)} \cup {StockPass}

InitBot ==
    \E shuffled \in Shuffles, opening \in Openings :
        LET joined == accept_client(accept_client(Constructed, "north"), "east")
        IN  StateIs(lock_bid(deal_cards(joined, shuffled), opening, "north"))

ClientPasses(p) ==
    /\ is_human_player(Self, p)
    /\ game_phase = "bidding"
    /\ Becomes(lock_bid(Self, StockPass, p))

TickBot ==
    /\ update_pc = "loop"
    /\ game_phase = "bidding"
    /\ \E shuffled \in Shuffles : Becomes(on_update(Self, shuffled))

WakeBidBot ==
    /\ update_pc = "opponent_bid"
    /\ \E choice \in {"pass", "bid"} : Becomes(after_bid_sleep(Self, choice))

NextBot ==
    \/ \E p \in Positions : ClientPasses(p)
    \/ TickBot
    \/ WakeBidBot

SpecBot == InitBot /\ [][NextBot]_vars /\ WF_vars(NextBot)

\* the bid that opponent_bid records for the seat on turn is legal
LegalBotBid(choice) ==
    LET after == opponent_bid(Self, choice)
        bid == after.bidding_history[Len(after.bidding_history)]
    IN  /\ Len(after.bidding_history) = Len(bidding_history) + 1
        /\ bid.player = current_turn
        /\ after.current_turn = Clockwise(current_turn, 1)
        /\ \/ bid.type = "pass" /\ after.contract_level = contract_level
           \/ /\ bid.type = "normal"
              /\ bid.level \in 1 .. 7
              /\ bid.suit \in Range(SUITS)
              /\ contract_level # NoLevel
                     => BidOrdinal(bid.level, bid.suit)
                            > BidOrdinal(contract_level, contract_suit)
        /\ contract_level >= 4 => bid.type = "pass"

\* the dispatcher is about to bid for a seat without client
BotOnTurn ==
    /\ game_phase = "bidding"
    /\ update_pc = "opponent_bid"
    /\ HasBot(current_turn)

-----------------------------------------------------------------------------
(* The bot in the play                                                     *)

\* the dispatcher is about to play for the seat on turn, which no client
\* holds, with fewer than 4 cards on the table
BotPlays ==
    /\ game_phase = "playing"
    /\ update_pc = "opponent_play"
    /\ ~Connected(current_turn)
    /\ Len(Table) < 4

\* the hand of the seat on turn, in the order of card_list
HandOnTurn == HandOf(Self, current_turn)

\* the cards of that hand of the suit led
FollowingOnTurn ==
    {i \in 1 .. Len(HandOnTurn) :
        Len(Table) > 0 /\ CardSuit(HandOnTurn[i]) = CardSuit(Table[1])}

\* the play of card by the bot of the seat on turn: that card alone leaves
\* the hand for the table, on top of the cards already there; then the turn
\* moves clockwise, or with four cards on the table to the winner of the trick
BotPlayed(s, card) ==
    /\ s.update_pc # "dead"
    /\ s.card_location = [card_location EXCEPT ![card] = "table"]
    /\ s.card_owner = card_owner
    /\ TableOf(s) = Append(Table, card)
    /\ s.current_turn =
           IF Len(Table) < 3 THEN Clockwise(current_turn, 1)
           ELSE card_owner[Winner(Append(Table, card), contract_suit)]

\* C34: when the dispatcher plays for a seat on turn that no client holds, in
\* the playing phase with fewer than 4 cards on the table, it moves exactly
\* one card of that seat's hand to the table: the first card of the hand of
\* the suit led if the table is not empty and the hand has one, else the
\* first card of the hand; then the turn moves clockwise, or the trick is
\* resolved if the table holds 4 cards.
C34_BotPlaysOneCard ==
    BotPlays
        => /\ Len(HandOnTurn) > 0
           /\ BotPlayed(opponent_play(Self),
                        IF FollowingOnTurn # {}
                        THEN HandOnTurn[CHOOSE i \in FollowingOnTurn :
                                            \A j \in FollowingOnTurn : i <= j]
                        ELSE HandOnTurn[1])

\* the same with a card in the hand of the seat on turn
C34_BotPlaysOneCardOfAHand ==
    (BotPlays /\ Len(HandOnTurn) > 0)
        => BotPlayed(opponent_play(Self),
                     IF FollowingOnTurn # {}
                     THEN HandOnTurn[CHOOSE i \in FollowingOnTurn :
                                         \A j \in FollowingOnTurn : i <= j]
                     ELSE HandOnTurn[1])


-----------------------------------------------------------------------------
(* The declarer and the dummy                                              *)

\* the cards of the dummy's hand that may be played to the trick: any card
\* when the table is empty or the hand has none of the suit led, else the
\* cards of the suit led
LegalOfDummy ==
    {c \in HandCards(dummy_position) :
        \/ Len(Table) = 0
        \/ CardSuit(c) = CardSuit(Table[1])
        \/ \A d \in HandCards(dummy_position) : CardSuit(d) # CardSuit(Table[1])}

\* the dummy is on turn in an open trick and the declarer is a client
DeclarerActsForDummy ==
    /\ game_phase = "playing"
    /\ current_turn = dummy_position
    /\ Connected(declarer_position)
    /\ Len(Table) < 4

\* C35: when the dummy is on turn in the playing phase, a play_card of the
\* declarer's connection that names a legal card of the dummy's hand is
\* accepted: the card goes to the table.
C35_DeclarerPlaysDummy ==
    DeclarerActsForDummy
        => \A c \in LegalOfDummy :
               play_card(Self,
                         [card_suit |-> CardSuit(c), card_value |-> CardValue(c)],
                         declarer_position).card_location[c] = "table"

\* the dummy is on turn with a card to play and the declarer is a client
C35_DummyOnTurn == DeclarerActsForDummy /\ LegalOfDummy # {}

\* a play_card of the declarer for the dummy on turn changes nothing
C35_DeclarerPlayIgnored ==
    DeclarerActsForDummy
        => \A action \in PlayInputs :
               play_card(Self, action, declarer_position) = Self


-----------------------------------------------------------------------------
(* The broadcast                                                           *)

\* s ends an execution of on_update; if the table state is not what it was
\* when the dispatcher took the step, the last game state that went to the
\* clients is the table state of s
SentAtEnd(s) ==
    (s.update_pc = "loop" /\ game_state(s) # game_state(Self))
        => /\ s.sent # <<>>
           /\ s.sent[Len(s.sent)] = game_state(s)

\* C36: after every execution of on_update that changes the table state, the
\* game state last broadcast equals the table state at the end of that
\* execution (phase, current_turn, contract, vulnerability, deal number,
\* score, cards, bidding history).
C36_BroadcastAtEndOfTick ==
    /\ update_pc = "loop"
           => \A shuffled \in Shuffles : SentAtEnd(on_update(Self, shuffled))
    /\ update_pc = "opponent_bid"
           => \A choice \in {"pass", "bid"} : SentAtEnd(after_bid_sleep(Self, choice))
    /\ update_pc = "opponent_play" => SentAtEnd(after_play_sleep(Self))
    /\ update_pc = "trick_sleep" => SentAtEnd(after_trick_sleep(Self))
    /\ update_pc = "scoring_sleep" => SentAtEnd(after_scoring_sleep(Self))


-----------------------------------------------------------------------------
(* The contract during the play                                            *)

\* C37: from the moment the phase is playing until the scoring step of the
\* deal has added its score, no step changes the contract's level, strain,
\* team or doubled flag, whatever the clients send and whenever the
\* dispatcher ticks.
C37_ContractFixedInPlay ==
    [][game_phase = "playing"
          => UNCHANGED <<contract_level, contract_suit, contract_team,
                         contract_doubled>>]_vars


-----------------------------------------------------------------------------
(* The table                                                               *)

\* C38: the table never holds more than 4 cards, whatever the clients do
\* while the dispatcher sleeps between its decision to play for a seat no
\* client holds and the play itself.
C38_AtMostFourOnTable == Len(Table) <= 4


-----------------------------------------------------------------------------
(* The control of the seats                                                *)

\* the number of clients connected at a seat and of bots listed for it
ClientsAt(seat) == Cardinality({i \in 1 .. Len(client_list) : client_list[i] = seat})
BotsAt(seat) == Cardinality({i \in 1 .. Len(bot_list) : bot_list[i] = seat})

\* C39: after any joins and leaves every seat has exactly one controller: no
\* two connected clients hold the same seat, and each seat is held by one
\* connected client or has one entry in the bot list, never both, never
\* neither.
C39_OneControllerPerSeat ==
    \A seat \in Positions : ClientsAt(seat) + BotsAt(seat) = 1

\* no seat has a client and a bot, nor two bots
C39_NeverClientAndBot ==
    \A seat \in Positions :
        /\ BotsAt(seat) <= 1
        /\ ClientsAt(seat) > 0 => BotsAt(seat) = 0


-----------------------------------------------------------------------------
(* The end of the auction                                                  *)

\* C40: once a contract is set and the last 3 bids of the deal are passes, no
\* step appends a bid to the deal's bidding history or changes the contract
\* or the doubled flag, until the reset at the end of the deal clears them;
\* a bid a client on turn sends before the next execution of on_update is
\* refused.
C40_NoBidAfterAuctionEnd ==
    [][AuctionComplete
          => \/ UNCHANGED <<bidding_history, contract_level, contract_suit,
                            contract_team, contract_doubled>>
             \/ /\ game_phase # "bidding"
                /\ bidding_history' = <<>>
                /\ contract_level' = NoLevel]_vars


====
